---- MODULE Spec2Model ----
(***************************************************************************)
(* Formal model of dwarflint (src/src/dwarflint.c): the diagnostic         *)
(* selector (DNF criteria over message categories), the top-level driver   *)
(* (main / process_file), the relocation cursor, the abbreviation loader   *)
(* and the DIE-chain walker.                                               *)
(***************************************************************************)
EXTENDS Integers, Sequences, FiniteSets, TLC

VARIABLES
  \* command-line configuration (parse_opt)
  tolerate_nodebug, be_strict, be_gnu, be_tolerant, show_refs,
  \* diagnostics state
  warning_criteria, error_criteria, error_count, n_diag, last,
  \* driver state (main / process_file)
  pc, argc, remaining, file, exit_status,
  \* a criterion under the algebra (message_cri_and / _or / _and_not)
  cri, cri_op,
  \* the relocation cursor of one section (struct relocation_data)
  rel, rel_index, rel_call,
  \* abbrev_table_load: input, position, the tables being loaded
  abbr_in, abbr_pos, abbr_cur, abbr_section, abbr_chain, abbr_pc, abbr_dups,
  \* read_die_chain: input, position, the stack of invocations
  die_in, die_pos, die_cur, die_stack, die_pc, die_st, die_report,
  \* check_info_structural: the CU chain, the loop position, the outcome
  cu_chain, info_pc, info_success, info_log, info_ret, info_max, info_late,
  \* check_loc_or_range_structural: the section, the references, the loop
  \* over the references and the loop over the entries of one list
  lr_sec, lr_refs, lr_low_pc, lr_i, lr_pc, lr_ctx, lr_cov, lr_retval,
  lr_ref_ret, lr_overlap, lr_base, lr_last_off, lr_log,
  \* check_aranges_structural: one table, its tuples and the tuple loop
  ar_in, ar_short, ar_et_rel, ar_coverage, ar_hdr, ar_pos, ar_pc, ar_retval, ar_cov,
  ar_term, ar_log,
  \* check_line_structural: one table, the bytes after its header, the
  \* cursor over them and the flags of the opcode loop
  ln_in, ln_gap, ln_files, ln_ptr, ln_pc, ln_terminated, ln_seen_opcode,
  ln_first_file, ln_file_used, ln_retval, ln_exit, ln_hist, ln_log,
  \* relocate_one: the call, the value it may rewrite, *symptr
  ro_in, ro_value, ro_sym, ro_pc, ro_log,
  \* read_rel: the entries of the relocation section, the loop over them,
  \* the vector being built
  rr_in, rr_i, rr_rel, rr_pc, rr_log,
  \* check_location_expression: the opcodes, the cursor, the two records
  le_in, le_i, le_ptr, le_oprefs, le_opaddrs, le_pc, le_log,
  \* die_check_context: the live checks, the iterator, the DIE being checked
  dc_live, dc_it, dc_die, dc_pc, dc_start, dc_invoked, dc_dead, dc_last, dc_log

flagVars == <<tolerate_nodebug, be_strict, be_gnu, be_tolerant, show_refs>>
diagVars == <<warning_criteria, error_criteria, error_count, n_diag, last>>
mainVars == <<pc, argc, remaining, file, exit_status>>
criVars  == <<cri, cri_op>>
relVars  == <<rel, rel_index, rel_call>>
abbrVars == <<abbr_in, abbr_pos, abbr_cur, abbr_section, abbr_chain, abbr_pc,
              abbr_dups>>
dieVars  == <<die_in, die_pos, die_cur, die_stack, die_pc, die_st, die_report>>
infoVars == <<cu_chain, info_pc, info_success, info_log, info_ret, info_max,
              info_late>>
lrVars == <<lr_sec, lr_refs, lr_low_pc, lr_i, lr_pc, lr_ctx, lr_cov, lr_retval,
            lr_ref_ret, lr_overlap, lr_base, lr_last_off, lr_log>>
arVars == <<ar_in, ar_short, ar_et_rel, ar_coverage, ar_hdr, ar_pos, ar_pc, ar_retval,
            ar_cov, ar_term, ar_log>>
lnVars == <<ln_in, ln_gap, ln_files, ln_ptr, ln_pc, ln_terminated,
            ln_seen_opcode, ln_first_file, ln_file_used, ln_retval, ln_exit,
            ln_hist, ln_log>>
loaderVars == <<infoVars, lrVars, arVars, lnVars>>
roVars == <<ro_in, ro_value, ro_sym, ro_pc, ro_log>>
rrVars == <<rr_in, rr_i, rr_rel, rr_pc, rr_log>>
leVars == <<le_in, le_i, le_ptr, le_oprefs, le_opaddrs, le_pc, le_log>>
dcVars == <<dc_live, dc_it, dc_die, dc_pc, dc_start, dc_invoked, dc_dead,
            dc_last, dc_log>>
auxVars == <<roVars, rrVars, leVars, dcVars>>
unitVars == <<criVars, relVars, abbrVars, dieVars, loaderVars, auxVars>>
vars == <<flagVars, diagVars, mainVars, unitVars>>

(***************************************************************************)
(* Bounds of the model.                                                    *)
(***************************************************************************)
MaxChain == 1      \* longest "caused by" chain (where->next links) of a where
MaxFiles == 2      \* number of FILE arguments on the command line
MaxRel == 3        \* longest relocation list
MaxOff == 3        \* largest section offset (the offsets are 0 .. MaxOff)
MaxAbbrevs == 3    \* longest .debug_abbrev input, in entries
MaxCode == 2       \* largest abbreviation code (codes are 1 .. MaxCode, 0 ends a table)
MaxDies == 3       \* longest DIE stream of a CU, in entries
MaxTerms == 2      \* longest criterion drawn as input of the criterion algebra

(***************************************************************************)
(* Message categories: MC (name, bit index) of MESSAGE_CATEGORIES.  A      *)
(* category (enum message_category) is a set of bit indices.               *)
(***************************************************************************)
mc_impact_1       == 0
mc_impact_3       == 2
mc_impact_4       == 3
mc_acc_bloat      == 4
mc_acc_suboptimal == 5
mc_error          == 6
mc_abbrevs        == 8
mc_die_rel        == 9
mc_strings        == 12
mc_aranges        == 13
mc_elf            == 14
mc_pubtables      == 15
mc_pubtypes       == 16
mc_loc            == 17
mc_ranges         == 18
mc_line           == 19
mc_header         == 21
mc_other          == 31
mc_none           == {}

\* "max" as computed by the MC(CAT, ID) max = ID; expansion: the last
\* (highest) index of the table.
max == mc_other

Term(p, n) == [positive |-> p, negative |-> n]

\* message_accept: some term has all its positive bits in cat and none of
\* its negative bits.
message_accept(c, cat) ==
  \E i \in 1..Len(c) :
     /\ (c[i].positive \cap cat) = c[i].positive
     /\ (c[i].negative \cap cat) = {}

\* message_cri_and: OR the term into every disjunct; a disjunct that becomes
\* contradictory is overwritten by the last one and the size shrinks.
RECURSIVE cri_and_loop(_, _, _)
cri_and_loop(terms, i, term) ==
  IF i > Len(terms) THEN terms
  ELSE LET t == Term(terms[i].positive \cup term.positive,
                     terms[i].negative \cup term.negative)
           n == Len(terms)
       IN IF (t.positive \cap t.negative) # {}
          THEN cri_and_loop(IF i = n THEN SubSeq(terms, 1, n - 1)
                            ELSE [SubSeq(terms, 1, n - 1) EXCEPT ![i] = terms[n]],
                            i, term)
          ELSE cri_and_loop([terms EXCEPT ![i] = t], i + 1, term)

message_cri_and(c, term) == cri_and_loop(c, 1, term)

\* message_cri_or: append the term.
message_cri_or(c, term) == Append(c, term)

\* The loop bound of message_cri_neg: bits 0 .. max-1 are visited.
neg_last_bit == max - 1

\* message_cri_neg: one single-bit disjunct per bit of the term, in bit
\* order; a positive bit gives {bit, none}, a negative bit {none, bit}.
RECURSIVE cri_neg_loop(_, _, _)
cri_neg_loop(term, i, ret) ==
  IF i > neg_last_bit THEN ret
  ELSE cri_neg_loop(term, i + 1,
         IF i \in term.positive THEN message_cri_or(ret, Term({i}, mc_none))
         ELSE IF i \in term.negative THEN message_cri_or(ret, Term(mc_none, {i}))
         ELSE ret)

message_cri_neg(term) == cri_neg_loop(term, 0, <<>>)

\* message_cri_mul: pairwise OR of the terms (i outer, j inner), the
\* contradictory products dropped.
message_cri_mul(c, rhs) ==
  LET n == Len(c) * Len(rhs)
      prod == [k \in 1..n |->
                 LET t1 == c[((k - 1) \div Len(rhs)) + 1]
                     t2 == rhs[((k - 1) % Len(rhs)) + 1]
                 IN Term(t1.positive \cup t2.positive,
                         t1.negative \cup t2.negative)]
  IN SelectSeq(prod, LAMBDA t : (t.positive \cap t.negative) = {})

\* message_cri_and_not: multiply by the negation of the swapped term.
message_cri_and_not(c, term) ==
  message_cri_mul(c, message_cri_neg(Term(term.negative, term.positive)))

(***************************************************************************)
(* Where: NULL, or a coordinate with a chain of `next' links.              *)
(***************************************************************************)
WhereNull == [isnull |-> TRUE, next |-> 0]
Where(n)  == [isnull |-> FALSE, next |-> n]
Wheres    == {WhereNull} \cup {Where(n) : n \in 0..MaxChain}

\* where_fmt_chain: one "caused by this reference" line per link of the
\* chain, when wh is not NULL and --ref is set.
\* Variant: the chain printed whether or not --ref is set.
where_fmt_chain_always(wh) == IF ~wh.isnull THEN wh.next ELSE 0

where_fmt_chain(wh) == IF ~wh.isnull /\ show_refs THEN wh.next ELSE 0

NoCall == [fn |-> "none", cat |-> mc_none, wh |-> WhereNull,
           sev |-> "none", lines |-> 0]

\* wr_verror: the "error: ..." line, the chain, ++error_count.
wr_verror(fn, cat, wh) ==
  /\ error_count' = error_count + 1
  /\ n_diag' = n_diag + 1
  /\ last' = [fn |-> fn, cat |-> cat, wh |-> wh, sev |-> "error",
              lines |-> 1 + where_fmt_chain(wh)]

\* Variant: a warning that is printed but not counted.
wr_vwarning_uncounted(fn, cat, wh) ==
  /\ error_count' = error_count
  /\ n_diag' = n_diag + 1
  /\ last' = [fn |-> fn, cat |-> cat, wh |-> wh, sev |-> "warning",
              lines |-> 1 + where_fmt_chain(wh)]

\* wr_vwarning: the "warning: ..." line, the chain, ++error_count.
wr_vwarning(fn, cat, wh) ==
  /\ error_count' = error_count + 1
  /\ n_diag' = n_diag + 1
  /\ last' = [fn |-> fn, cat |-> cat, wh |-> wh, sev |-> "warning",
              lines |-> 1 + where_fmt_chain(wh)]

wr_error(wh)   == wr_verror("error", mc_none, wh)
wr_warning(wh) == wr_vwarning("warning", mc_none, wh)

\* Variant: the severity decided by the warning criterion alone.
wr_message_always_error(category, wh) ==
  IF message_accept(warning_criteria, category)
  THEN wr_verror("message", category, wh)
  ELSE /\ UNCHANGED <<error_count, n_diag>>
       /\ last' = [fn |-> "message", cat |-> category, wh |-> wh,
                   sev |-> "none", lines |-> 0]

\* wr_message: nothing unless the warning criterion accepts; an error when
\* the error criterion accepts as well, a warning otherwise.
wr_message(category, wh) ==
  IF message_accept(warning_criteria, category)
  THEN IF message_accept(error_criteria, category)
       THEN wr_verror("message", category, wh)
       ELSE wr_vwarning("message", category, wh)
  ELSE /\ UNCHANGED <<error_count, n_diag>>
       /\ last' = [fn |-> "message", cat |-> category, wh |-> wh,
                   sev |-> "none", lines |-> 0]

(***************************************************************************)
(* main: criteria assembly (the flags are set by parse_opt beforehand).    *)
(***************************************************************************)
InitialWarning == message_cri_or(<<>>, Term(mc_none, mc_none))

\* Variant: error criteria without the impact_4 term.
InitialError_error_only == message_cri_or(<<>>, Term({mc_error}, mc_none))

InitialError ==
  message_cri_or(message_cri_or(<<>>, Term({mc_impact_4}, mc_none)),
                 Term({mc_error}, mc_none))

cfg_nodebug(c) ==
  IF tolerate_nodebug THEN message_cri_and(c, Term(mc_none, {mc_elf})) ELSE c

\* Variant: --gnu silencing acc_suboptimal instead of acc_bloat.
cfg_gnu_suboptimal(c) ==
  IF be_gnu THEN message_cri_and(c, Term(mc_none, {mc_acc_suboptimal})) ELSE c

cfg_gnu(c) ==
  IF be_gnu THEN message_cri_and(c, Term(mc_none, {mc_acc_bloat})) ELSE c

cfg_strict(c) ==
  IF ~be_strict
  THEN message_cri_and(
         message_cri_and_not(
           message_cri_and(c, Term(mc_none, {mc_strings})),
           Term({mc_line, mc_header, mc_acc_bloat}, mc_none)),
         Term(mc_none, {mc_pubtypes}))
  ELSE c

cfg_tolerant(c) ==
  IF be_tolerant
  THEN message_cri_and(message_cri_and(c, Term(mc_none, {mc_loc})),
                       Term(mc_none, {mc_ranges}))
  ELSE c

\* What process_file does about an absent section: a hard wr_error
\* (.debug_abbrev, .debug_info), a "data not found" wr_message
\* (.debug_pubnames, .debug_pubtypes, .debug_line), or nothing
\* (.debug_ranges, .debug_loc, .debug_aranges).
NotFoundClass(sec) ==
  IF sec \in {"abbrev", "info"} THEN "error"
  ELSE IF sec \in {"pubnames", "pubtypes", "line"} THEN "message"
  ELSE "silent"

\* The per-file record: the two chains process_file holds, and, for the
\* properties, the classes of the sections found absent and of the absences
\* that printed a diagnostic, those of the sections looked at after
\* .debug_info that hold data, and the loaders called so far, in call order.
NoFile == [abbrev_chain |-> FALSE, cu_chain |-> FALSE,
           absent |-> {}, reported |-> {}, present |-> {}, ran |-> <<>>]

\* The sections process_file looks at after .debug_info whatever became of
\* the CU chain.
LateSections == {"aranges", "pubnames", "pubtypes", "line"}

\* main, up to the first open(): the criteria are assembled.
main_configure ==
  /\ pc = "main"
  /\ warning_criteria' = cfg_tolerant(cfg_strict(cfg_gnu(cfg_nodebug(InitialWarning))))
  /\ error_criteria' = InitialError
  /\ pc' = "open"
  /\ UNCHANGED <<flagVars, error_count, n_diag, last, argc, remaining, file,
                 exit_status, unitVars>>

\* One turn of main's do-while up to process_file: open() fails (error(0,
\* errno, ...) on stderr, not counted), elf_begin or layout_rel_file fails
\* (wr_error (NULL, ...)), or the file goes to process_file.
main_open ==
  /\ pc = "open"
  /\ \E outcome \in {"cannot_open", "invalid_elf", "ok"} :
       CASE outcome = "cannot_open" ->
              /\ pc' = "next"
              /\ UNCHANGED <<error_count, n_diag, last>>
         [] outcome = "invalid_elf" ->
              /\ wr_error(WhereNull)
              /\ pc' = "next"
         [] outcome = "ok" ->
              /\ pc' = "elf_file_init"
              /\ UNCHANGED <<error_count, n_diag, last>>
  /\ file' = NoFile
  /\ UNCHANGED <<flagVars, warning_criteria, error_criteria, argc, remaining,
                 exit_status, unitVars>>

\* while (++remaining < argc); return error_count != 0.
main_next ==
  /\ pc = "next"
  /\ remaining' = remaining + 1
  /\ IF remaining + 1 < argc
     THEN pc' = "open" /\ UNCHANGED exit_status
     ELSE pc' = "done" /\ exit_status' = (IF error_count # 0 THEN 1 ELSE 0)
  /\ UNCHANGED <<flagVars, diagVars, argc, file, unitVars>>

(***************************************************************************)
(* process_file, one action per section pass.  What the ELF file holds     *)
(* (HAS_SEC) and what a loader finds in a section are inputs.              *)
(***************************************************************************)
\* A loader's own diagnostics: none, a hard wr_error, or a wr_message of
\* one of its call sites.
LoaderDiag(d, cat) ==
  CASE d = "none"    -> UNCHANGED <<error_count, n_diag, last>>
    [] d = "error"   -> wr_error(Where(0))
    [] d = "message" -> wr_message(cat, Where(0))

LoaderOutcomes == {"none", "error", "message"}

pf_frame == UNCHANGED <<flagVars, warning_criteria, error_criteria, argc,
                        remaining, exit_status, unitVars>>

\* elf_file_init: no backend / no ehdr (silent failure), a broken ELF
\* (wr_error and failure), or the section table is built, with or without
\* an error about one of the sections.  process_file returns to main on
\* failure.
pf_elf_file_init ==
  /\ pc = "elf_file_init"
  /\ \E outcome \in {"no_backend", "broken", "ok", "ok_error"} :
       CASE outcome = "no_backend" ->
              /\ pc' = "close"
              /\ UNCHANGED <<error_count, n_diag, last>>
         [] outcome = "broken" ->
              /\ wr_error(WhereNull)
              /\ pc' = "close"
         [] outcome = "ok" ->
              /\ pc' = "abbrev"
              /\ UNCHANGED <<error_count, n_diag, last>>
         [] outcome = "ok_error" ->
              /\ wr_error(WhereNull)
              /\ pc' = "abbrev"
  /\ UNCHANGED file
  /\ pf_frame

\* Variant: the complaint made whatever -i says.
complain_always == TRUE

\* The guard of every complaint about an absent section:
\* else if (!tolerate_nodebug).
complain_missing == ~tolerate_nodebug

\* .debug_abbrev: abbrev_table_load, or the hard error.
pf_abbrev ==
  /\ pc = "abbrev"
  /\ \E has \in BOOLEAN, chain \in BOOLEAN, d \in LoaderOutcomes :
       IF has
       THEN /\ LoaderDiag(d, {mc_abbrevs, mc_header, mc_acc_bloat, mc_impact_1})
            /\ file' = [file EXCEPT !.abbrev_chain = chain,
                                    !.ran = Append(@, "abbrev")]
       ELSE /\ chain = FALSE /\ d = "none"
            /\ IF complain_missing
               THEN /\ wr_error(WhereNull)
                    /\ file' = [file EXCEPT !.absent = @ \cup {NotFoundClass("abbrev")},
                                            !.reported = @ \cup {NotFoundClass("abbrev")}]
               ELSE /\ UNCHANGED <<error_count, n_diag, last>>
                    /\ file' = [file EXCEPT !.absent = @ \cup {NotFoundClass("abbrev")}]
  /\ pc' = "info"
  /\ pf_frame

\* .debug_info: only with an abbrev chain.  SEC(str)->data is evaluated
\* as an argument of check_info_structural; with no .debug_str section
\* record (SEC(str) == NULL) that is a read through a null pointer, which
\* either traps or goes through.
pf_info ==
  /\ pc = "info"
  /\ IF file.abbrev_chain
     THEN \E has \in BOOLEAN, has_str \in BOOLEAN :
            IF has
            THEN \/ /\ ~has_str
                    /\ pc' = "crashed"
                    /\ UNCHANGED <<error_count, n_diag, last>>
                    /\ \E later \in SUBSET LateSections :
                         file' = [file EXCEPT !.present = later]
                 \/ \E chain \in BOOLEAN, d \in LoaderOutcomes :
                      /\ LoaderDiag(d, {mc_die_rel, mc_acc_suboptimal, mc_impact_4})
                      /\ file' = [file EXCEPT !.cu_chain = chain,
                                              !.ran = Append(@, "info")]
                      /\ pc' = "ranges"
            ELSE /\ pc' = "ranges"
                 /\ IF complain_missing
                    THEN /\ wr_error(WhereNull)
                         /\ file' = [file EXCEPT !.absent = @ \cup {NotFoundClass("info")},
                                                 !.reported = @ \cup {NotFoundClass("info")}]
                    ELSE /\ UNCHANGED <<error_count, n_diag, last>>
                         /\ file' = [file EXCEPT !.absent = @ \cup {NotFoundClass("info")}]
     ELSE /\ pc' = "ranges"
          /\ UNCHANGED <<error_count, n_diag, last>>
          /\ \E has \in BOOLEAN :
               file' = IF has THEN file
                       ELSE [file EXCEPT !.absent = @ \cup {"unchecked"}]
  /\ pf_frame

\* The sections whose check is guarded by cu_chain != NULL:
\* if (HAS_SEC(ranges) && cu_chain != NULL), if (HAS_SEC(loc) && cu_chain
\* != NULL); the later ones are guarded by HAS_SEC alone.
needs_cu_chain(sec) == sec \in {"ranges", "loc"}

\* .debug_ranges and .debug_loc: checked only with a CU chain; an absent
\* section is passed over in silence.
pf_loc_or_range(at, sec, cat, then) ==
  /\ pc = at
  /\ \E has \in BOOLEAN, d \in LoaderOutcomes :
       IF has
       THEN IF needs_cu_chain(sec) => file.cu_chain
            THEN /\ LoaderDiag(d, {cat, mc_error})
                 /\ file' = [file EXCEPT !.ran = Append(@, sec)]
            ELSE /\ d = "none" /\ UNCHANGED <<error_count, n_diag, last>>
                 /\ UNCHANGED file
       ELSE /\ d = "none"
            /\ UNCHANGED <<error_count, n_diag, last>>
            /\ file' = [file EXCEPT !.absent = @ \cup {NotFoundClass(sec)}]
  /\ pc' = then
  /\ pf_frame

pf_ranges == pf_loc_or_range("ranges", "ranges", mc_ranges, "loc")
pf_loc    == pf_loc_or_range("loc", "loc", mc_loc, "aranges")

\* .debug_aranges: checked when present, with or without a CU chain; an
\* absent section is passed over in silence.
pf_aranges ==
  /\ pc = "aranges"
  /\ \E has \in BOOLEAN, d \in LoaderOutcomes :
       IF has
       THEN IF needs_cu_chain("aranges") => file.cu_chain
            THEN /\ LoaderDiag(d, {mc_aranges, mc_error, mc_acc_bloat,
                                   mc_impact_1})
                 /\ file' = [file EXCEPT !.present = @ \cup {"aranges"},
                                         !.ran = Append(@, "aranges")]
            ELSE /\ d = "none" /\ UNCHANGED <<error_count, n_diag, last>>
                 /\ file' = [file EXCEPT !.present = @ \cup {"aranges"}]
       ELSE /\ d = "none"
            /\ UNCHANGED <<error_count, n_diag, last>>
            /\ file' = [file EXCEPT !.absent = @ \cup {NotFoundClass("aranges")}]
  /\ pc' = "pubnames"
  /\ pf_frame

\* The category of the "data not found" message of a section.
NotFoundCategory(sec) ==
  CASE sec = "pubnames" -> {mc_impact_4, mc_acc_suboptimal, mc_elf}
    [] sec = "pubtypes" -> {mc_impact_4, mc_acc_suboptimal, mc_elf, mc_pubtypes}
    [] sec = "line"     -> {mc_impact_4, mc_acc_suboptimal, mc_elf, mc_loc}

\* .debug_pubnames, .debug_pubtypes, .debug_line: checked when present;
\* when absent and not -i, a "data not found" message.
pf_pub_or_line(at, sec, cat, then) ==
  /\ pc = at
  /\ \E has \in BOOLEAN, d \in LoaderOutcomes :
       IF has
       THEN IF needs_cu_chain(sec) => file.cu_chain
            THEN /\ LoaderDiag(d, cat)
                 /\ file' = [file EXCEPT !.present = @ \cup {sec},
                                         !.ran = Append(@, sec)]
            ELSE /\ d = "none" /\ UNCHANGED <<error_count, n_diag, last>>
                 /\ file' = [file EXCEPT !.present = @ \cup {sec}]
       ELSE /\ d = "none"
            /\ IF complain_missing
               THEN /\ wr_message(NotFoundCategory(sec), Where(0))
                    /\ file' = [file EXCEPT
                         !.absent = @ \cup {NotFoundClass(sec)},
                         !.reported = IF message_accept(warning_criteria,
                                                        NotFoundCategory(sec))
                                      THEN @ \cup {NotFoundClass(sec)} ELSE @]
               ELSE /\ UNCHANGED <<error_count, n_diag, last>>
                    /\ file' = [file EXCEPT !.absent = @ \cup {NotFoundClass(sec)}]
  /\ pc' = then
  /\ pf_frame

pf_pubnames == pf_pub_or_line("pubnames", "pubnames",
                 {mc_pubtables, mc_error, mc_acc_bloat, mc_impact_1}, "pubtypes")
pf_pubtypes == pf_pub_or_line("pubtypes", "pubtypes",
                 {mc_pubtables, mc_error, mc_acc_bloat, mc_impact_1}, "line")
pf_line     == pf_pub_or_line("line", "line",
                 {mc_line, mc_header, mc_acc_bloat, mc_impact_1}, "close")

\* Back in main: elf_end; a failure there is one more wr_error (NULL, ...).
\* process_file has returned: the record of its passes ends with it.
main_close ==
  /\ pc = "close"
  /\ \E err \in BOOLEAN :
       IF err THEN wr_error(WhereNull)
       ELSE UNCHANGED <<error_count, n_diag, last>>
  /\ pc' = "next"
  /\ file' = [file EXCEPT !.present = {}, !.ran = <<>>]
  /\ pf_frame

\* The units exercised on their own are idle while the driver runs.
NoCriOp == [op |-> "none", before |-> <<>>, term |-> Term(mc_none, mc_none)]
IdleCri == cri = <<>> /\ cri_op = NoCriOp

NoRelCall == [fn |-> "none", offset |-> 0, st |-> "skip_ok", ret |-> -1,
              from |-> 0, reads |-> {}, addr1 |-> -1]
IdleRel == rel = <<>> /\ rel_index = 0 /\ rel_call = NoRelCall

IdleAbbrev ==
  /\ abbr_in = <<>> /\ abbr_pos = 1 /\ abbr_cur = 0 /\ abbr_section = FALSE
  /\ abbr_chain = <<>> /\ abbr_pc = "idle" /\ abbr_dups = {}

NoReport == [kind |-> "none", at |-> 0, s |-> 0, prev |-> 0]
IdleDie ==
  /\ die_in = <<>> /\ die_pos = 1 /\ die_cur = 0 /\ die_stack = <<>>
  /\ die_pc = "idle" /\ die_st = 0 /\ die_report = NoReport

IdleInfo ==
  /\ cu_chain = <<>> /\ info_pc = "idle" /\ info_success = TRUE
  /\ info_log = {} /\ info_ret = <<>> /\ info_max = -1 /\ info_late = {}

IdleLocRange ==
  /\ lr_sec = <<>> /\ lr_refs = <<>> /\ lr_low_pc = 0 /\ lr_i = 1
  /\ lr_pc = "idle" /\ lr_ctx = 0 /\ lr_cov = {} /\ lr_retval = TRUE
  /\ lr_ref_ret = TRUE /\ lr_overlap = FALSE /\ lr_base = 0
  /\ lr_last_off = 0 /\ lr_log = {}

NoHeader == [address_size |-> 0, cu |-> -1]

IdleAranges ==
  /\ ar_in = <<>> /\ ar_short = "none" /\ ar_et_rel = FALSE /\ ar_hdr = NoHeader
  /\ ar_coverage = FALSE /\ ar_pos = 1 /\ ar_pc = "idle" /\ ar_retval = TRUE
  /\ ar_cov = {} /\ ar_term = 0 /\ ar_log = {}

IdleLine ==
  /\ ln_in = <<>> /\ ln_gap = 0 /\ ln_files = 0 /\ ln_ptr = 0
  /\ ln_pc = "idle" /\ ln_terminated = FALSE /\ ln_seen_opcode = FALSE
  /\ ln_first_file = TRUE /\ ln_file_used = FALSE /\ ln_retval = TRUE
  /\ ln_exit = "none" /\ ln_hist = {} /\ ln_log = {}

IdleRelocOne ==
  /\ ro_in = <<>> /\ ro_value = 0 /\ ro_sym = "unset" /\ ro_pc = "idle"
  /\ ro_log = {}

IdleReadRel ==
  rr_in = <<>> /\ rr_i = 0 /\ rr_rel = <<>> /\ rr_pc = "idle" /\ rr_log = {}

IdleLocExpr ==
  /\ le_in = <<>> /\ le_i = 0 /\ le_ptr = 0 /\ le_oprefs = {}
  /\ le_opaddrs = {} /\ le_pc = "idle" /\ le_log = {}

IdleDieCheck ==
  /\ dc_live = <<>> /\ dc_it = 0 /\ dc_die = 0 /\ dc_pc = "idle"
  /\ dc_start = <<>> /\ dc_invoked = <<>> /\ dc_dead = {}
  /\ dc_last = [check |-> 0, sig |-> "none"] /\ dc_log = {}

IdleAux == IdleRelocOne /\ IdleReadRel /\ IdleLocExpr /\ IdleDieCheck

IdleLoaders ==
  IdleInfo /\ IdleLocRange /\ IdleAranges /\ IdleLine /\ IdleAux

\* While a unit is exercised on its own the driver stands where main has
\* assembled the criteria of a run without flags.
IdleMain(at) ==
  /\ tolerate_nodebug = FALSE /\ be_strict = FALSE /\ be_gnu = FALSE
  /\ be_tolerant = FALSE /\ show_refs = FALSE
  /\ warning_criteria = cfg_tolerant(cfg_strict(cfg_gnu(cfg_nodebug(InitialWarning))))
  /\ error_criteria = InitialError
  /\ error_count = 0 /\ n_diag = 0 /\ last = NoCall
  /\ pc = at /\ argc = 1 /\ remaining = 0 /\ file = NoFile
  /\ exit_status = -1

Init ==
  /\ tolerate_nodebug \in BOOLEAN
  /\ be_strict \in BOOLEAN
  /\ be_gnu \in BOOLEAN
  /\ be_tolerant \in BOOLEAN
  /\ show_refs \in BOOLEAN
  /\ warning_criteria = <<>>
  /\ error_criteria = <<>>
  /\ error_count = 0
  /\ n_diag = 0
  /\ last = NoCall
  /\ pc = "main"
  /\ argc \in 1..MaxFiles
  /\ remaining = 0
  /\ file = NoFile
  /\ exit_status = -1
  /\ IdleCri
  /\ IdleRel
  /\ IdleAbbrev
  /\ IdleDie
  /\ IdleLoaders

Next ==
  \/ main_configure
  \/ main_open
  \/ pf_elf_file_init
  \/ pf_abbrev
  \/ pf_info
  \/ pf_ranges
  \/ pf_loc
  \/ pf_aranges
  \/ pf_pubnames
  \/ pf_pubtypes
  \/ pf_line
  \/ main_close
  \/ main_next

Spec == Init /\ [][Next]_vars

(***************************************************************************)
(* The diagnostic entry points under an arbitrary caller: after the        *)
(* criteria are assembled, one call of wr_error, wr_warning or wr_message  *)
(* with any category over the bits the criteria mention and any where.     *)
(***************************************************************************)
DiagBits == {mc_impact_4, mc_error, mc_acc_bloat, mc_acc_suboptimal, mc_elf,
             mc_strings, mc_pubtypes, mc_loc, mc_ranges, mc_line, mc_header}

diag_frame == /\ pc' = "called"
              /\ UNCHANGED <<flagVars, warning_criteria, error_criteria, argc,
                             remaining, file, exit_status, unitVars>>

call_wr_error ==
  /\ pc = "open"
  /\ \E wh \in Wheres : wr_error(wh)
  /\ diag_frame

call_wr_warning ==
  /\ pc = "open"
  /\ \E wh \in Wheres : wr_warning(wh)
  /\ diag_frame

call_wr_message ==
  /\ pc = "open"
  /\ \E cat \in SUBSET DiagBits, wh \in Wheres : wr_message(cat, wh)
  /\ diag_frame

NextDiag ==
  \/ main_configure
  \/ call_wr_error
  \/ call_wr_warning
  \/ call_wr_message

SpecDiag == Init /\ [][NextDiag]_vars

(***************************************************************************)
(* Properties.                                                             *)
(***************************************************************************)
\* A term matches a category; a criterion accepts it (the specification's
\* reading, by set inclusion).
Matches(t, c) == t.positive \subseteq c /\ (t.negative \cap c) = {}
Accepts(c, cat) == \E i \in 1..Len(c) : Matches(c[i], cat)

\* C1: message(cat, where) prints a diagnostic iff the warning criterion
\* accepts cat (some term t has t.positive \subseteq cat and t.negative
\* disjoint from cat); when it prints, the severity is "error" iff the error
\* criterion accepts cat as well, and "warning" otherwise.
C1_MessageSeverity ==
  last.fn = "message" =>
    /\ (last.sev # "none") <=> Accepts(warning_criteria, last.cat)
    /\ (last.sev = "error") <=>
          (Accepts(warning_criteria, last.cat) /\ Accepts(error_criteria, last.cat))
    /\ (last.sev = "warning") <=>
          (Accepts(warning_criteria, last.cat) /\ ~Accepts(error_criteria, last.cat))

\* C1 witness: a message escalated to an error under criteria that hold
\* negative terms, and one suppressed call is not it.
C1_Witness ==
  /\ pc = "called" /\ last.fn = "message" /\ last.sev = "error"
  /\ ~be_strict /\ be_tolerant
  /\ mc_error \in last.cat /\ mc_acc_bloat \in last.cat

\* C2: every diagnostic printed through error(), warning() or an accepted
\* message() adds exactly one to error_count, a suppressed message() leaves
\* it unchanged, the counter never decreases (also from one file to the
\* next), and the exit code is 1 iff the counter is non-zero after the last
\* file, i.e. iff at least one diagnostic was printed.
C2_ErrorCounter ==
  [][ /\ (n_diag' - n_diag) \in {0, 1}
      /\ error_count' - error_count = n_diag' - n_diag
      /\ (last' # last /\ last'.sev = "none" => error_count' = error_count)
      /\ error_count' >= error_count
      /\ (pc' = "done" =>
            /\ exit_status' = (IF error_count' # 0 THEN 1 ELSE 0)
            /\ (exit_status' = 1 <=> n_diag' > 0)) ]_vars

\* C2 witness: the run ends after two files with diagnostics of both
\* severities counted.
C2_Witness ==
  /\ pc = "done" /\ remaining = 2 /\ exit_status = 1
  /\ error_count >= 2 /\ last.sev = "warning"

\* C3 as stated: the exit status is 0 iff no diagnostic was printed and
\* every section the tool checks was present (here: in the last file).
C3_ExitIffCleanAndComplete ==
  pc = "done" => (exit_status = 0 <=> (n_diag = 0 /\ file.absent = {}))

\* C3 as amended: the exit status is 0 iff no diagnostic was printed; an
\* absent section counts only through the diagnostic its absence prints:
\* none for .debug_ranges, .debug_loc and .debug_aranges, none for
\* .debug_info when no abbreviation table was loaded, a hard error for
\* .debug_abbrev and otherwise for .debug_info, a "data not found" message
\* subject to the criteria for the other three, and with -i none at all.
C3_ExitIffNoDiagnostic ==
  /\ pc = "done" => (exit_status = 0 <=> n_diag = 0)
  /\ file.reported \subseteq (file.absent \ {"silent", "unchecked"})
  /\ (tolerate_nodebug => file.reported = {})
  /\ (~tolerate_nodebug /\ "error" \in file.absent => "error" \in file.reported)

\* C3 witness: without -i, a file that lacks one of .debug_ranges,
\* .debug_loc, .debug_aranges and nothing else ends the run with status 0.
C3_Witness ==
  /\ pc = "done" /\ exit_status = 0 /\ ~tolerate_nodebug
  /\ file.absent = {"silent"} /\ file.cu_chain

C4Bits == {mc_elf, mc_acc_bloat, mc_loc, mc_ranges, mc_strings, mc_pubtypes,
           mc_line, mc_header, mc_impact_4, mc_other}

\* C4: for every combination of -i, --gnu, --strict, --tolerant the warning
\* criterion assembled at startup accepts c iff (-i unset or elf not in c)
\* and (--gnu unset or acc_bloat not in c) and (--tolerant unset or neither
\* loc nor ranges in c) and (--strict set or (strings, pubtypes not in c and
\* not all of line, header, acc_bloat in c)).
C4_WarningCriterion ==
  (pc = "open" /\ remaining = 0) =>
    \A c \in SUBSET C4Bits :
      Accepts(warning_criteria, c) <=>
        /\ (~tolerate_nodebug \/ mc_elf \notin c)
        /\ (~be_gnu \/ mc_acc_bloat \notin c)
        /\ (~be_tolerant \/ (mc_loc \notin c /\ mc_ranges \notin c))
        /\ (be_strict \/ ( /\ mc_strings \notin c
                           /\ mc_pubtypes \notin c
                           /\ ~({mc_line, mc_header, mc_acc_bloat} \subseteq c)))

\* C4 witness: the criterion assembled with -i, --gnu and --tolerant and
\* without --strict.
C4_Witness ==
  /\ pc = "open" /\ remaining = 0
  /\ tolerate_nodebug /\ be_gnu /\ be_tolerant /\ ~be_strict
  /\ Len(warning_criteria) = 3

\* C7 as stated: a printed diagnostic whose category carries acc_bloat or
\* acc_suboptimal has severity "warning".
C7_BloatAlwaysWarning ==
  ( /\ last.fn = "message" /\ last.sev # "none"
    /\ (mc_acc_bloat \in last.cat \/ mc_acc_suboptimal \in last.cat) )
  => last.sev = "warning"

\* C7 as amended: such a diagnostic has severity "warning" unless its
\* category also carries impact_4 or error, and then it is an "error".
C7_BloatWarningUnlessEscalated ==
  ( /\ last.fn = "message" /\ last.sev # "none"
    /\ (mc_acc_bloat \in last.cat \/ mc_acc_suboptimal \in last.cat) )
  => (last.sev = "error" <=> (mc_impact_4 \in last.cat \/ mc_error \in last.cat))

\* C7 witness: the "data not found" message of .debug_pubnames
\* (impact_4 | acc_suboptimal | elf) printed as an error.
C7_Witness ==
  /\ pc = "pubtypes" /\ last.fn = "message" /\ last.sev = "error"
  /\ last.cat = {mc_impact_4, mc_acc_suboptimal, mc_elf}

(***************************************************************************)
(* The criterion algebra under an arbitrary caller: a criterion of at most *)
(* MaxTerms non-contradictory terms, then one call of message_cri_and,     *)
(* message_cri_or or message_cri_and_not with a non-contradictory term.    *)
(***************************************************************************)
CriBits == {mc_acc_bloat, mc_line, max}

CriTerms == {Term(p, n) : p \in SUBSET CriBits, n \in SUBSET CriBits}
              \cap {t \in [positive : SUBSET CriBits, negative : SUBSET CriBits] :
                      (t.positive \cap t.negative) = {}}

Criteria == UNION {[1..n -> CriTerms] : n \in 0..MaxTerms}

InitCri ==
  /\ IdleMain("algebra")
  /\ cri \in Criteria
  /\ cri_op = NoCriOp
  /\ IdleRel
  /\ IdleAbbrev
  /\ IdleDie
  /\ IdleLoaders

cri_frame == UNCHANGED <<flagVars, diagVars, mainVars, relVars, abbrVars, dieVars,
                         loaderVars, auxVars>>

call_message_cri_and ==
  /\ pc = "algebra" /\ cri_op.op = "none"
  /\ \E t \in CriTerms :
       /\ cri' = message_cri_and(cri, t)
       /\ cri_op' = [op |-> "and", before |-> cri, term |-> t]
  /\ cri_frame

call_message_cri_or ==
  /\ pc = "algebra" /\ cri_op.op = "none"
  /\ \E t \in CriTerms :
       /\ cri' = message_cri_or(cri, t)
       /\ cri_op' = [op |-> "or", before |-> cri, term |-> t]
  /\ cri_frame

call_message_cri_and_not ==
  /\ pc = "algebra" /\ cri_op.op = "none"
  /\ \E t \in CriTerms :
       /\ cri' = message_cri_and_not(cri, t)
       /\ cri_op' = [op |-> "and_not", before |-> cri, term |-> t]
  /\ cri_frame

\* message_cri_neg called on its own: the criterion it returns.
call_message_cri_neg ==
  /\ pc = "algebra" /\ cri_op.op = "none"
  /\ \E t \in CriTerms :
       /\ cri' = message_cri_neg(t)
       /\ cri_op' = [op |-> "neg", before |-> cri, term |-> t]
  /\ cri_frame

NextCri ==
  \/ call_message_cri_and
  \/ call_message_cri_or
  \/ call_message_cri_and_not
  \/ call_message_cri_neg

SpecCri == InitCri /\ [][NextCri]_vars

\* C5: after and_not(cri, t) the criterion accepts a category c iff cri
\* accepted c before and t does not match c, for every non-contradictory
\* term t over the vocabulary, the category with the highest bit index
\* included.
C5_AndNotRejectsMatching ==
  cri_op.op = "and_not" =>
    \A c \in SUBSET CriBits :
      Accepts(cri, c) <=> (Accepts(cri_op.before, c) /\ ~Matches(cri_op.term, c))

(***************************************************************************)
(* The relocation cursor of one section: a list sorted by offset, an       *)
(* index, and the readers' calls with non-decreasing offsets.              *)
(***************************************************************************)
Relocation(o, inv) == [offset |-> o, invalid |-> inv]

\* The lists read_rel leaves behind: sorted by offset.
SortedRels ==
  {r \in UNION {[1..n -> {Relocation(o, inv) : o \in 0..MaxOff, inv \in BOOLEAN}] :
                  n \in 0..MaxRel} :
     \A i \in 1..(Len(r) - 1) : r[i].offset <= r[i + 1].offset}

SkipTypes == {"skip_unref", "skip_mismatched", "skip_ok"}

\* uint64_t arithmetic at the width of the modelled offsets.
OffsetModulus == MaxOff + 1

\* The loop of relocation_next from cursor position index: the position it
\* leaves, the entry it returns (its position, -1 for NULL) and the number
\* of wr_error calls it makes for entries behind the offset.
RECURSIVE relocation_next_loop(_, _, _, _, _)
relocation_next_loop(r, index, offset, st, errs) ==
  IF ~(index < Len(r)) THEN [index |-> index, ret |-> -1, errs |-> errs]
  ELSE LET e == r[index + 1] IN
       IF e.offset > offset THEN [index |-> index, ret |-> -1, errs |-> errs]
       ELSE IF e.invalid
            THEN relocation_next_loop(r, index + 1, offset, st, errs)
       ELSE IF e.offset < offset
            THEN relocation_next_loop(r, index + 1, offset, st,
                                      IF st # "skip_ok" THEN errs + 1 ELSE errs)
       ELSE [index |-> index + 1, ret |-> index, errs |-> errs]

\* where_from_reloc: the offsets where_reset_1 can be given, the one of
\* rel[index]; an index that is not below the size reads past the array.
where_from_reloc(r, index) ==
  IF index < Len(r) THEN {r[index + 1].offset} ELSE 0..MaxOff

\* The calls of where_from_reloc in relocation_next: one for every valid
\* entry behind the offset, made after reloc->index++, when st is not
\* skip_ok.
reported_reads(r, from, res, offset, st) ==
  IF st = "skip_ok" THEN {}
  ELSE {[reported |-> k, index |-> k + 1] :
          k \in {j \in from..(res.index - 1) :
                   ~r[j + 1].invalid /\ r[j + 1].offset < offset}}

\* The offset where_from_reloc put into the location of the last report.
last_addr1(r, reads) ==
  IF reads = {} THEN {-1}
  ELSE where_from_reloc(r, CHOOSE i \in {rd.index : rd \in reads} :
                               \A rd \in reads : rd.index <= i)

\* Variant: the loop that leaves the cursor on the entry it returns.
relocation_next_peek(fn, offset, st) ==
  LET res == relocation_next_loop(rel, rel_index, offset, st, 0)
      idx == IF res.ret # -1 THEN res.ret ELSE res.index
      reads == reported_reads(rel, rel_index, res, offset, st)
  IN /\ rel_index' = idx
     /\ \E a \in last_addr1(rel, reads) :
          rel_call' = [fn |-> fn, offset |-> offset, st |-> st, ret |-> res.ret,
                       from |-> rel_index, reads |-> reads, addr1 |-> a]
     /\ error_count' = error_count + res.errs
     /\ n_diag' = n_diag + res.errs
     /\ last' = IF res.errs > 0
                THEN [fn |-> "error", cat |-> mc_none, wh |-> Where(0),
                      sev |-> "error", lines |-> 1 + where_fmt_chain(Where(0))]
                ELSE last

\* relocation_next on the section's cursor, with the errors it prints.
relocation_next(fn, offset, st) ==
  LET res == relocation_next_loop(rel, rel_index, offset, st, 0)
      reads == reported_reads(rel, rel_index, res, offset, st)
  IN /\ rel_index' = res.index
     /\ \E a \in last_addr1(rel, reads) :
          rel_call' = [fn |-> fn, offset |-> offset, st |-> st, ret |-> res.ret,
                       from |-> rel_index, reads |-> reads, addr1 |-> a]
     /\ error_count' = error_count + res.errs
     /\ n_diag' = n_diag + res.errs
     /\ last' = IF res.errs > 0
                THEN [fn |-> "error", cat |-> mc_none, wh |-> Where(0),
                      sev |-> "error", lines |-> 1 + where_fmt_chain(Where(0))]
                ELSE last

\* relocation_skip: relocation_next at offset - 1.
relocation_skip(offset, st) ==
  relocation_next("skip", (offset - 1) % OffsetModulus, st)

InitReloc ==
  /\ IdleMain("reloc")
  /\ IdleCri
  /\ rel \in SortedRels
  /\ rel_index = 0
  /\ rel_call = NoRelCall
  /\ IdleAbbrev
  /\ IdleDie
  /\ IdleLoaders

reloc_frame == UNCHANGED <<flagVars, warning_criteria, error_criteria,
                           mainVars, criVars, abbrVars, dieVars, loaderVars, auxVars,
                           rel>>

\* A reader at ctx_offset asks for the relocation of the field it read.
call_relocation_next ==
  /\ pc = "reloc"
  /\ \E o \in rel_call.offset..MaxOff, st \in SkipTypes :
       relocation_next("next", o, st)
  /\ reloc_frame

\* A reader skips a block: the call sites pass an offset past the current
\* position, hence at least 1.
call_relocation_skip ==
  /\ pc = "reloc"
  /\ \E o \in (rel_call.offset + 1)..MaxOff, st \in SkipTypes :
       relocation_skip(o, st)
  /\ reloc_frame

\* relocation_skip_rest: relocation_next at (uint64_t)-1, skip_mismatched.
call_relocation_skip_rest ==
  /\ pc = "reloc"
  /\ relocation_next("skip_rest", OffsetModulus - 1, "skip_mismatched")
  /\ reloc_frame

\* The reader passes the entry relocation_next returned to relocate_one,
\* which builds the location of its diagnostics with where_from_reloc.
call_relocate_one ==
  /\ pc = "reloc"
  /\ rel_call.fn = "next" /\ rel_call.ret # -1
  /\ \E a \in where_from_reloc(rel, rel_index) :
       rel_call' = [rel_call EXCEPT !.fn = "relocate_one",
                      !.reads = {[reported |-> rel_call.ret, index |-> rel_index]},
                      !.addr1 = a]
  /\ UNCHANGED <<rel_index, diagVars>>
  /\ reloc_frame

NextReloc ==
  \/ call_relocation_next
  \/ call_relocation_skip
  \/ call_relocation_skip_rest
  \/ call_relocate_one

SpecReloc == InitReloc /\ [][NextReloc]_vars

\* Position of the first entry of r whose offset satisfies P, Len(r) if none.
FirstAtLeast(r, o) ==
  IF \E k \in 0..(Len(r) - 1) : r[k + 1].offset >= o
  THEN CHOOSE k \in 0..(Len(r) - 1) :
         /\ r[k + 1].offset >= o
         /\ \A j \in 0..(k - 1) : r[j + 1].offset < o
  ELSE Len(r)

FirstAbove(r, o) ==
  IF \E k \in 0..(Len(r) - 1) : r[k + 1].offset > o
  THEN CHOOSE k \in 0..(Len(r) - 1) :
         /\ r[k + 1].offset > o
         /\ \A j \in 0..(k - 1) : r[j + 1].offset <= o
  ELSE Len(r)

\* C8 as stated: after next(o) returns, with an entry or with none, the
\* cursor index is the position of the first entry with offset >= o, or
\* the list size when there is none.
C8_CursorAtFirstAtLeast ==
  rel_call.fn # "none" => rel_index = FirstAtLeast(rel, rel_call.offset)

\* C8 as amended: after next(o) returns an entry, the entry is valid, has
\* offset o and the index is one past it; after it returns none, the index
\* is the position of the first entry with offset > o (entries at o that
\* are invalid have been passed), or the list size.  In both cases every
\* entry before the index has offset <= o and every entry from the index
\* on has offset >= o.
C8_CursorPastReturned ==
  rel_call.fn # "none" =>
    LET o == rel_call.offset IN
    /\ rel_call.ret # -1 =>
         /\ rel_index = rel_call.ret + 1
         /\ rel[rel_call.ret + 1].offset = o
         /\ ~rel[rel_call.ret + 1].invalid
         /\ rel_call.ret >= rel_call.from
         /\ \A k \in rel_call.from..(rel_call.ret - 1) :
              rel[k + 1].invalid \/ rel[k + 1].offset < o
    /\ rel_call.ret = -1 => rel_index = FirstAbove(rel, o)
    /\ \A k \in 0..(rel_index - 1) : rel[k + 1].offset <= o
    /\ \A k \in rel_index..(Len(rel) - 1) : rel[k + 1].offset >= o
    /\ rel_index >= FirstAtLeast(rel, o)

\* C8 witness: next(o) returned an entry that was not at the cursor when
\* the call began, and another entry at the same offset follows it.
C8_Witness ==
  /\ rel_call.fn = "next" /\ rel_call.ret > rel_call.from
  /\ rel_index < Len(rel)
  /\ rel[rel_index + 1].offset = rel_call.offset

(***************************************************************************)
(* abbrev_table_load over a .debug_abbrev input given as its entries: a    *)
(* zero code, an unreadable code, or a code with the rest of its           *)
(* declaration ("ok", fatally "bad", with the non-fatal "high_pc" error,   *)
(* or cut off by the end of the section, "eof").  Codes stay below 2^31,   *)
(* where cmp_abbrs' conversion to int is exact.                            *)
(***************************************************************************)
ZeroCode == [code |-> 0, body |-> "none"]
BadCode  == [code |-> -1, body |-> "none"]
AbbrevEntries ==
  {ZeroCode, BadCode}
    \cup [code : 1..MaxCode, body : {"ok", "bad", "high_pc", "eof"}]

AbbrevInputs ==
  {inp \in UNION {[1..n -> AbbrevEntries] : n \in 0..MaxAbbrevs} :
     \A i \in 1..Len(inp) : inp[i].body = "eof" => i = Len(inp)}

\* abbrev_table_find_abbrev: binary search of the array for the code; the
\* position found, -1 for NULL.
RECURSIVE find_abbrev_loop(_, _, _, _)
find_abbrev_loop(abbr, a, b, abbrev_code) ==
  IF ~(a < b) THEN -1
  ELSE LET i == (a + b) \div 2 IN
       IF abbr[i + 1].code > abbrev_code
       THEN find_abbrev_loop(abbr, a, i, abbrev_code)
       ELSE IF abbr[i + 1].code < abbrev_code
       THEN find_abbrev_loop(abbr, i + 1, b, abbrev_code)
       ELSE i

abbrev_table_find_abbrev(abbr, abbrev_code) ==
  find_abbrev_loop(abbr, 0, Len(abbr), abbrev_code)

cmp_abbrs(aa, bb) == aa.code - bb.code

\* The arrays qsort may leave: the permutations ordered by cmp_abbrs
\* (entries that compare equal in either order).
QsortResults(abbr) ==
  LET n == Len(abbr)
      perms == {f \in [1..n -> 1..n] : \A i, j \in 1..n : i # j => f[i] # f[j]}
  IN {[k \in 1..n |-> abbr[f[k]]] : f \in
        {g \in perms : \A k \in 1..(n - 1) : cmp_abbrs(abbr[g[k]], abbr[g[k + 1]]) <= 0}}

InitAbbrev ==
  /\ IdleMain("abbrev")
  /\ IdleCri
  /\ IdleRel
  /\ abbr_in \in AbbrevInputs
  /\ abbr_pos = 1 /\ abbr_cur = 0 /\ abbr_section = FALSE
  /\ abbr_chain = <<>> /\ abbr_pc = "codes" /\ abbr_dups = {}
  /\ IdleDie
  /\ IdleLoaders

abbrev_frame == UNCHANGED <<flagVars, warning_criteria, error_criteria,
                            mainVars, criVars, relVars, dieVars, loaderVars, auxVars,
                            abbr_in>>

\* Number of zero codes in a row from position p.
RECURSIVE ZeroRun(_, _)
ZeroRun(inp, p) ==
  IF p <= Len(inp) /\ inp[p] = ZeroCode THEN 1 + ZeroRun(inp, p + 1) ELSE 0

\* The head of one turn of the while loop: the do-while that reads codes
\* up to the first non-zero one, the padding message, the eof test.
abbrev_read_code ==
  /\ pc = "abbrev" /\ abbr_pc = "codes"
  /\ IF abbr_pos > Len(abbr_in)
     THEN /\ abbr_pc' = "sort"
          /\ UNCHANGED <<diagVars, abbr_pos, abbr_cur, abbr_section, abbr_chain,
                         abbr_dups>>
     ELSE LET k == ZeroRun(abbr_in, abbr_pos)
              p == abbr_pos + k
          IN /\ abbr_section' = IF k >= 1 THEN FALSE ELSE abbr_section
             /\ UNCHANGED <<abbr_chain, abbr_dups>>
             /\ IF p <= Len(abbr_in) /\ abbr_in[p] = BadCode
                THEN /\ wr_error(Where(0))
                     /\ abbr_pc' = "failed"
                     /\ abbr_pos' = p /\ abbr_cur' = p
                ELSE /\ IF k >= 2
                        THEN wr_message({mc_abbrevs, mc_header, mc_acc_bloat,
                                         mc_impact_1}, Where(0))
                        ELSE UNCHANGED <<error_count, n_diag, last>>
                     /\ IF p > Len(abbr_in)
                        THEN /\ abbr_pc' = "sort"
                             /\ abbr_pos' = p /\ abbr_cur' = abbr_cur
                        ELSE /\ abbr_pos' = p + 1 /\ abbr_cur' = p
                             /\ abbr_pc' = IF abbr_in[p].body = "eof"
                                           THEN "sort" ELSE "find"
  /\ abbrev_frame

\* The table is opened if none is open, the code is looked up and the
\* abbreviation stored unless the lookup finds it.
abbrev_store ==
  /\ pc = "abbrev" /\ abbr_pc = "find"
  /\ LET code == abbr_in[abbr_cur].code
         chain == IF abbr_section THEN abbr_chain ELSE <<<<>>>> \o abbr_chain
         section == chain[1]
         original == abbrev_table_find_abbrev(section, code)
     IN /\ abbr_section' = TRUE
        /\ IF original # -1
           THEN /\ wr_error(Where(0))
                /\ abbr_dups' = abbr_dups \cup
                     {[at |-> abbr_cur, code |-> code,
                       site |-> section[original + 1].site]}
                /\ abbr_chain' = chain
           ELSE /\ UNCHANGED <<error_count, n_diag, last, abbr_dups>>
                /\ abbr_chain' =
                     [chain EXCEPT ![1] =
                        Append(section, [code |-> code, site |-> abbr_cur])]
  /\ abbr_pc' = "body"
  /\ UNCHANGED <<abbr_pos, abbr_cur>>
  /\ abbrev_frame

\* Tag, has_children and the attribute list of the abbreviation.
abbrev_body ==
  /\ pc = "abbrev" /\ abbr_pc = "body"
  /\ LET body == abbr_in[abbr_cur].body
     IN /\ IF body = "ok"
           THEN UNCHANGED <<error_count, n_diag, last>>
           ELSE wr_error(Where(0))
        /\ abbr_pc' = IF body = "bad" THEN "failed" ELSE "codes"
        /\ abbr_chain' = IF body = "bad" THEN <<>> ELSE abbr_chain
  /\ UNCHANGED <<abbr_pos, abbr_cur, abbr_section, abbr_dups>>
  /\ abbrev_frame

\* The end of the load: every table is sorted and the chain returned.
abbrev_sort ==
  /\ pc = "abbrev" /\ abbr_pc = "sort"
  /\ \E sorted \in [1..Len(abbr_chain) ->
                      UNION {QsortResults(abbr_chain[t]) : t \in 1..Len(abbr_chain)}] :
       /\ \A t \in 1..Len(abbr_chain) : sorted[t] \in QsortResults(abbr_chain[t])
       /\ abbr_chain' = sorted
  /\ abbr_pc' = "loaded"
  /\ UNCHANGED <<diagVars, abbr_pos, abbr_cur, abbr_section, abbr_dups>>
  /\ abbrev_frame

NextAbbrev ==
  \/ abbrev_read_code
  \/ abbrev_store
  \/ abbrev_body
  \/ abbrev_sort

SpecAbbrev == InitAbbrev /\ [][NextAbbrev]_vars

\* C9: whatever the order of the codes in the file, an abbreviation whose
\* code is already defined in the same table is reported as a duplicate
\* citing the first definition and is not stored, so the codes stored in a
\* table are pairwise distinct.
C9_StoredCodesDistinct ==
  /\ \A t \in 1..Len(abbr_chain) :
       \A i, j \in 1..Len(abbr_chain[t]) :
         i # j => abbr_chain[t][i].code # abbr_chain[t][j].code
  /\ \A d \in abbr_dups : d.site < d.at /\ abbr_in[d.site].code = d.code

(***************************************************************************)
(* read_die_chain over the DIE stream of one CU, given as its entries: a   *)
(* zero abbrev code, an unreadable code, or a DIE (whether its abbrev has  *)
(* children, the value of its DW_AT_sibling if it has one, and whether the *)
(* rest of the DIE reads: "ok", fatally "bad", or "empty" for an abbrev    *)
(* without attributes).  The offset of an entry is its position in the     *)
(* stream.  The recursion on children is a stack of frames.                *)
(***************************************************************************)
NoSibling == -1

DieEntry(k, h, b, sib) ==
  [kind |-> k, has_children |-> h, body |-> b, sibling |-> sib]
ZeroDie       == DieEntry("zero", FALSE, "none", NoSibling)
UnreadableDie == DieEntry("unreadable", FALSE, "none", NoSibling)
DieEntries ==
  {ZeroDie, UnreadableDie}
    \cup {DieEntry("die", h, "ok", sib) :
            h \in BOOLEAN, sib \in {NoSibling} \cup (0..MaxDies)}
    \cup {DieEntry("die", h, b, NoSibling) :
            h \in BOOLEAN, b \in {"bad", "empty"}}

DieInputs == UNION {[1..n -> DieEntries] : n \in 0..MaxDies}

\* The locals of one invocation: sibling_addr, got_die, and where (the
\* offset of the entry read last, 0 before the first).
Frame(sib, got, wh) == [sibling_addr |-> sib, got_die |-> got, where |-> wh]

\* prev_abbrev is initialised to NULL and assigned nowhere.
prev_abbrev_has_children == FALSE

\* Variant: the offsets compared whatever the abbrev code.
sibling_check_any_code(sibling_addr, zero_code, die_off) ==
  IF sibling_addr # 0
  THEN IF sibling_addr # die_off THEN "mismatch"
       ELSE IF zero_code THEN "last_sibling" ELSE "none"
  ELSE IF prev_abbrev_has_children THEN "no_sibling" ELSE "none"

\* The check of the sibling value advertised last time through the loop:
\* which diagnostic it makes.
sibling_check(sibling_addr, zero_code, die_off) ==
  IF sibling_addr # 0
  THEN IF zero_code THEN "last_sibling"
       ELSE IF sibling_addr # die_off THEN "mismatch" ELSE "none"
  ELSE IF prev_abbrev_has_children THEN "no_sibling" ELSE "none"

InitDie ==
  /\ IdleMain("info")
  /\ IdleCri
  /\ IdleRel
  /\ IdleAbbrev
  /\ die_in \in DieInputs
  /\ die_pos = 1 /\ die_cur = 0
  /\ die_stack = <<Frame(0, FALSE, 0)>>
  /\ die_pc = "loop" /\ die_st = 0 /\ die_report = NoReport
  /\ IdleLoaders

die_frame == UNCHANGED <<flagVars, warning_criteria, error_criteria,
                         mainVars, criVars, relVars, abbrVars, loaderVars, auxVars,
                         die_in>>

\* The head of one turn of the while loop: the abbrev code is read and the
\* sibling value of the previous DIE of this chain is checked.
die_read_code ==
  /\ pc = "info" /\ die_pc = "loop"
  /\ LET top == die_stack[1] IN
     IF die_pos > Len(die_in)
     THEN /\ die_pc' = "chain_end"
          /\ UNCHANGED <<diagVars, die_pos, die_cur, die_stack, die_st, die_report>>
     ELSE LET e == die_in[die_pos]
              die_off == die_pos
          IN IF e.kind = "unreadable"
             THEN /\ wr_error(Where(0))
                  /\ die_pc' = "failed"
                  /\ die_stack' = <<>>
                  /\ die_st' = -1
                  /\ die_report' = NoReport
                  /\ die_cur' = die_pos
                  /\ UNCHANGED die_pos
             ELSE LET kind == sibling_check(top.sibling_addr, e.kind = "zero", die_off)
                  IN /\ IF kind \in {"last_sibling", "mismatch"}
                        THEN wr_error(Where(0))
                        ELSE IF kind = "no_sibling"
                        THEN wr_message({mc_die_rel, mc_acc_suboptimal, mc_impact_4},
                                        Where(0))
                        ELSE UNCHANGED <<error_count, n_diag, last>>
                     /\ die_report' = [kind |-> kind, at |-> die_off,
                                       s |-> top.sibling_addr, prev |-> top.where]
                     /\ die_stack' = [die_stack EXCEPT ![1] =
                                        Frame(0, top.got_die, die_off)]
                     /\ die_cur' = die_pos
                     /\ die_pos' = die_pos + 1
                     /\ die_pc' = "entry"
                     /\ UNCHANGED die_st
  /\ die_frame

\* The rest of the turn: a zero code or the end of the data ends the
\* chain; otherwise the DIE's attributes are read and its children, if its
\* abbrev has any, are read by a nested invocation.
die_read_attributes ==
  /\ pc = "info" /\ die_pc = "entry"
  /\ LET e == die_in[die_cur]
         top == die_stack[1]
     IN IF e.kind = "zero"
        THEN /\ die_pc' = "chain_end"
             /\ UNCHANGED <<diagVars, die_stack, die_st>>
        ELSE IF e.body = "empty" /\ die_pos > Len(die_in)
        THEN /\ wr_error(Where(0))
             /\ die_pc' = "chain_end"
             /\ UNCHANGED <<die_stack, die_st>>
        ELSE IF e.body = "bad"
        THEN /\ wr_error(Where(0))
             /\ die_pc' = "failed"
             /\ die_stack' = <<>>
             /\ die_st' = -1
        ELSE LET here == Frame(IF e.sibling # NoSibling THEN e.sibling
                               ELSE top.sibling_addr, TRUE, top.where)
             IN /\ die_stack' =
                     IF e.has_children
                     THEN <<Frame(0, FALSE, 0)>> \o [die_stack EXCEPT ![1] = here]
                     ELSE [die_stack EXCEPT ![1] = here]
                /\ die_pc' = "loop"
                /\ UNCHANGED <<diagVars, die_st>>
  /\ UNCHANGED <<die_pos, die_cur, die_report>>
  /\ die_frame

\* After the loop: a sibling value still pending is an error; the
\* invocation returns whether it read a DIE.
die_chain_end ==
  /\ pc = "info" /\ die_pc = "chain_end"
  /\ LET top == die_stack[1] IN
     /\ IF top.sibling_addr # 0
        THEN /\ wr_error(Where(0))
             /\ die_report' = [kind |-> "chain_ended", at |-> top.where,
                               s |-> top.sibling_addr, prev |-> top.where]
        ELSE UNCHANGED <<diagVars, die_report>>
     /\ die_st' = IF top.got_die THEN 1 ELSE 0
     /\ die_stack' = Tail(die_stack)
     /\ die_pc' = IF Len(die_stack) = 1 THEN "done" ELSE "children_read"
  /\ UNCHANGED <<die_pos, die_cur>>
  /\ UNCHANGED <<warning_criteria, error_criteria>>
  /\ die_frame

\* Back in the parent: an empty chain of children is worth a message.
die_children_read ==
  /\ pc = "info" /\ die_pc = "children_read"
  /\ IF die_st = 0
     THEN wr_message({mc_impact_3, mc_acc_suboptimal, mc_die_rel}, Where(0))
     ELSE UNCHANGED <<error_count, n_diag, last>>
  /\ die_pc' = "loop"
  /\ UNCHANGED <<die_pos, die_cur, die_stack, die_st, die_report>>
  /\ die_frame

NextDie ==
  \/ die_read_code
  \/ die_read_attributes
  \/ die_chain_end
  \/ die_children_read

SpecDie == InitDie /\ [][NextDie]_vars

\* The sibling value the DIE at offset p advertises: 0 for none.
Advertised(p) ==
  IF p # 0 /\ die_in[p].kind = "die" /\ die_in[p].body = "ok"
          /\ die_in[p].sibling # NoSibling
  THEN die_in[p].sibling ELSE 0

C6_AtMostOneLine ==
  last.fn = "message" =>
    /\ last.lines <= 1
    /\ (last.lines = 0 <=> ~Accepts(warning_criteria, last.cat))

\* C6 as amended: the call emits no line iff the category is rejected;
\* otherwise it emits the diagnostic line and, only with --ref, one
\* "caused by this reference" line per link of the where's chain, so at
\* most one line whenever --ref is unset or the chain is empty.
C6_OneLinePlusChain ==
  last.fn = "message" =>
    /\ (last.lines = 0 <=> ~Accepts(warning_criteria, last.cat))
    /\ (Accepts(warning_criteria, last.cat) =>
          last.lines = 1 + (IF show_refs /\ ~last.wh.isnull THEN last.wh.next ELSE 0))
    /\ (~show_refs \/ last.wh.isnull \/ last.wh.next = 0 => last.lines <= 1)

\* C6 witness: an accepted message whose where has a caused-by chain,
\* printed with --ref.
C6_Witness ==
  /\ pc = "called" /\ last.fn = "message" /\ show_refs
  /\ ~last.wh.isnull /\ last.wh.next >= 1 /\ last.lines >= 2

(***************************************************************************)
(* Several diagnostics made by one step of a loader: the calls are made in *)
(* order, each one printed and counted as wr_error / wr_warning /          *)
(* wr_message decide.                                                      *)
(***************************************************************************)
mc_impact_2  == 1
mc_info      == 11

\* The severity one call is printed with ("none": filtered out).
diag_sev(fn, cat) ==
  IF fn = "error" THEN "error"
  ELSE IF fn = "warning" THEN "warning"
  ELSE IF message_accept(warning_criteria, cat)
       THEN IF message_accept(error_criteria, cat) THEN "error" ELSE "warning"
       ELSE "none"

Call(fn, cat, kind, cu, addr) ==
  [fn |-> fn, cat |-> cat, wh |-> Where(0), kind |-> kind, cu |-> cu,
   addr |-> addr]

RECURSIVE CountPrinted(_)
CountPrinted(calls) ==
  IF calls = <<>> THEN 0
  ELSE (IF diag_sev(Head(calls).fn, Head(calls).cat) = "none" THEN 0 ELSE 1)
       + CountPrinted(Tail(calls))

wr_calls(calls) ==
  /\ error_count' = error_count + CountPrinted(calls)
  /\ n_diag' = n_diag + CountPrinted(calls)
  /\ last' = IF calls = <<>> THEN last
             ELSE LET c == calls[Len(calls)]
                      sev == diag_sev(c.fn, c.cat)
                  IN [fn |-> c.fn, cat |-> c.cat, wh |-> c.wh, sev |-> sev,
                      lines |-> IF sev = "none" THEN 0
                                ELSE 1 + where_fmt_chain(c.wh)]

\* What the calls leave on the output, as a set.
Logged(calls) ==
  {[kind |-> calls[i].kind, cu |-> calls[i].cu, addr |-> calls[i].addr,
    sev |-> diag_sev(calls[i].fn, calls[i].cat)] : i \in DOMAIN calls}

RECURSIVE Flatten(_)
Flatten(seqs) == IF seqs = <<>> THEN <<>> ELSE Head(seqs) \o Flatten(Tail(seqs))

Reverse(s) == [i \in 1..Len(s) |-> s[Len(s) + 1 - i]]

(***************************************************************************)
(* check_info_structural: one turn of the loop per CU of .debug_info       *)
(* (check_cu_structural with its walk of the DIEs), then the checks that   *)
(* follow the loop.  The section has no relocations, every CU fills its    *)
(* declared length and the strings are all referenced.  A CU occupies      *)
(* CuLen bytes: its header at offset 0 of the CU and a DIE at each offset  *)
(* of DieSlots that the input uses.                                        *)
(***************************************************************************)
MaxCus == 2        \* most CUs of .debug_info

DieSlots == {1, 2}
CuLen == Cardinality(DieSlots) + 1
CuOffset(k) == CuLen * (k - 1)
DieAddr(k, s) == CuOffset(k) + s
AllDieAddrs == {DieAddr(k, s) : k \in 1..MaxCus, s \in DieSlots}

NoRef == [form |-> "none", value |-> 0]
RefOptions ==
  {NoRef}
  \cup [form : {"ref"}, value : DieSlots \cup {CuLen, CuLen + 1}]
  \cup [form : {"ref_addr"}, value : AllDieAddrs]

\* The DIEs of one CU as the walk meets them: the offsets of the DIEs read,
\* the reference the first of them carries, whether the last of them
\* carries a local reference beyond the CU as well (note), whether an
\* abbreviation stays unused, and how read_die_chain ends (st "fatal": it
\* returns -1).
CuInputs ==
  {c \in [address_size : {4, 8}, dies : {{}, {1}, DieSlots},
          ref : RefOptions, note : BOOLEAN, unused : BOOLEAN,
          st : {"ok", "fatal"}] :
     /\ (c.ref # NoRef => c.dies # {})
     /\ (c.st = "fatal" => ~c.unused)
     /\ (c.note => /\ c.dies = DieSlots /\ c.st = "ok" /\ ~c.unused
                   /\ c.ref.form # "ref_addr" /\ c.ref.value <= CuLen)}

\* Variant: a DIE that cannot be read is reported at the offset of the CU.
failing_die_offset_of_cu(k, dies) == CuOffset(k)

\* where_reset_2 (&where, die_off + cu->offset) of the DIE that cannot be
\* read: the one after the DIEs read.
failing_die_offset(k, dies) == CuOffset(k) + Cardinality(dies) + 1

\* The diagnostics of a step are printed in the order of the calls; a
\* diagnostic printed for a lower offset than one printed before it is
\* late.
RECURSIVE order_fold(_, _, _, _)
order_fold(calls, offs, mx, late) ==
  IF calls = <<>> THEN [max |-> mx, late |-> late]
  ELSE LET c == Head(calls)
           o == Head(offs)
       IN IF diag_sev(c.fn, c.cat) = "none"
          THEN order_fold(Tail(calls), Tail(offs), mx, late)
          ELSE order_fold(Tail(calls), Tail(offs),
                          IF o > mx THEN o ELSE mx,
                          IF o < mx THEN late \cup {c.kind} ELSE late)

\* addr_record_add keeps the array sorted and free of duplicates and
\* addr_record_has_addr searches it: a set and membership.
addr_record_has_addr(ar, addr) == addr \in ar

BlankCu(k) ==
  [k |-> k, offset |-> CuOffset(k), address_size |-> 0, die_addrs |-> {},
   die_refs |-> {}, local_die_refs |-> {}, who |-> 0, walked |-> FALSE]

\* record_ref: a local reference beyond the CU is reported and dropped,
\* another local one is recorded with the CU offset added, a global one is
\* recorded as it is.
record_ref_outside(ref) == ref.form = "ref" /\ ref.value > CuLen
local_refs_of(k, ref) ==
  IF ref.form = "ref" /\ ~record_ref_outside(ref)
  THEN {CuOffset(k) + ref.value} ELSE {}
global_refs_of(ref) == IF ref.form = "ref_addr" THEN {ref.value} ELSE {}

\* Variant: unresolved references are reported but do not fail the CU.
check_die_references_lenient(die_addrs, die_refs) ==
  [retval |-> TRUE,
   unresolved |-> {r \in die_refs : ~addr_record_has_addr(die_addrs, r)}]

\* check_die_references: every recorded reference of the CU is looked up in
\* the DIE offsets of the CU.
check_die_references(die_addrs, die_refs) ==
  [retval |-> \A r \in die_refs : addr_record_has_addr(die_addrs, r),
   unresolved |-> {r \in die_refs : ~addr_record_has_addr(die_addrs, r)}]

SetToSeq(S) ==
  CHOOSE f \in [1..Cardinality(S) -> S] : \A i, j \in DOMAIN f : i < j => f[i] < f[j]

\* check_global_die_references: every recorded global reference is looked
\* up in the DIE offsets of every CU of the chain.
global_ref_calls(chain, i) ==
  LET it == chain[i]
      refs == SetToSeq(it.die_refs)
  IN [n \in DOMAIN refs |->
        IF \A j \in DOMAIN chain : ~addr_record_has_addr(chain[j].die_addrs, refs[n])
        THEN Call("error", mc_none, "unresolved_global", it.k, refs[n])
        ELSE LET jt == CHOOSE j \in DOMAIN chain :
                         /\ addr_record_has_addr(chain[j].die_addrs, refs[n])
                         /\ \A h \in 1..(j - 1) :
                              ~addr_record_has_addr(chain[h].die_addrs, refs[n])
             IN IF jt = i
                THEN Call("message", {mc_impact_2, mc_acc_suboptimal, mc_die_rel},
                          "local_as_global", it.k, refs[n])
                ELSE Call("none", mc_none, "none", it.k, refs[n])]

check_global_die_references(chain) ==
  LET all == Flatten([i \in DOMAIN chain |-> global_ref_calls(chain, i)])
  IN [retval |-> \A n \in DOMAIN all : all[n].kind # "unresolved_global",
      calls |-> SelectSeq(all, LAMBDA c : c.fn # "none")]

RECURSIVE address_size_loop(_, _, _)

\* Variant: the sizes are never compared.
address_size_loop_off(chain, i, address_size) == 0

\* The loop over the chain that compares the address sizes: the index of
\* the first CU whose size differs from the one seen before it, or 0.
address_size_loop(chain, i, address_size) ==
  IF i > Len(chain) THEN 0
  ELSE IF address_size = 0
       THEN address_size_loop(chain, i + 1, chain[i].address_size)
       ELSE IF address_size # chain[i].address_size THEN i
            ELSE address_size_loop(chain, i + 1, address_size)

InitInfo ==
  /\ IdleMain("info_section")
  /\ IdleAux
  /\ IdleCri
  /\ IdleRel
  /\ IdleAbbrev
  /\ IdleDie
  /\ cu_chain = <<>> /\ info_pc = "loop" /\ info_success = TRUE
  /\ info_log = {} /\ info_ret = <<>> /\ info_max = -1 /\ info_late = {}
  /\ IdleLocRange
  /\ IdleAranges
  /\ IdleLine

info_frame == UNCHANGED <<flagVars, warning_criteria, error_criteria,
                          mainVars, criVars, relVars, abbrVars, dieVars,
                          lrVars, arVars, lnVars, auxVars>>

\* read_ctx_eof: the loop ends at the end of the section.
info_eof ==
  /\ info_pc = "loop"
  /\ info_pc' = "after_loop"
  /\ UNCHANGED <<cu_chain, info_success, info_log, info_ret, info_max,
                 info_late, diagVars>>
  /\ info_frame

\* A turn that ends the loop before the CU is read: zero padding up to the
\* end of the section, or a CU length that cannot be read or does not fit.
\* The CU is on the chain already.  When the last four bytes of the section
\* are a length of 0, check_zero_padding is called with the cursor at the
\* end and its assertion fails.
info_cu_header(kind) ==
  /\ info_pc = "loop"
  /\ Len(cu_chain) < MaxCus
  /\ LET k == Len(cu_chain) + 1
         asserted == kind = "zero_length_at_end"
         calls == IF asserted THEN <<>>
                  ELSE IF kind = "padding"
                  THEN <<Call("message",
                              {mc_info, mc_header, mc_acc_bloat, mc_impact_1},
                              "padding", k, 0)>>
                  ELSE <<Call("error", mc_none, "cu_length", k, 0)>>
         ord == order_fold(calls, <<CuOffset(k)>>, info_max, info_late)
     IN /\ cu_chain' = <<BlankCu(k)>> \o cu_chain
        /\ info_success' = IF asserted THEN info_success ELSE kind = "padding"
        /\ wr_calls(calls)
        /\ info_log' = info_log \cup Logged(calls)
        /\ info_max' = ord.max /\ info_late' = ord.late
        /\ info_pc' = IF asserted THEN "assert_failed" ELSE "after_loop"
  /\ UNCHANGED info_ret
  /\ info_frame

\* A turn that reaches check_cu_structural: the DIEs are walked, unused
\* abbreviations are reported and the local references are resolved.
info_cu(c) ==
  /\ info_pc = "loop"
  /\ Len(cu_chain) < MaxCus
  /\ LET k == Len(cu_chain) + 1
         die_addrs == {DieAddr(k, s) : s \in c.dies}
         local == local_refs_of(k, c.ref)
         chk == check_die_references(die_addrs, local)
         unres == SetToSeq(chk.unresolved)
         who == DieAddr(k, 1)
         w1 == IF record_ref_outside(c.ref)
               THEN <<Call("error", mc_none, "invalid_ref", k,
                           CuOffset(k) + c.ref.value)>>
               ELSE <<>>
         w2 == IF c.note
               THEN <<Call("error", mc_none, "invalid_ref", k,
                           CuOffset(k) + CuLen + 1)>>
               ELSE <<>>
         w3 == IF c.st = "fatal"
               THEN <<Call("error", mc_none, "walk", k, 0)>>
               ELSE <<>>
         a1 == IF c.st = "ok" /\ c.unused
               THEN <<Call("message", {mc_impact_3, mc_acc_bloat, mc_abbrevs},
                           "unused_abbrev", k, 0)>>
               ELSE <<>>
         a2 == IF c.st = "ok"
               THEN [n \in DOMAIN unres |->
                       Call("error", mc_none, "unresolved_local", k, unres[n])]
               ELSE <<>>
         calls == w1 \o w2 \o w3 \o a1 \o a2
         offs == [n \in DOMAIN w1 |-> who]
                 \o [n \in DOMAIN w2 |-> DieAddr(k, 2)]
                 \o [n \in DOMAIN w3 |-> failing_die_offset(k, c.dies)]
                 \o [n \in DOMAIN a1 |-> CuOffset(k)]
                 \o [n \in DOMAIN a2 |-> who]
         ord == order_fold(calls, offs, info_max, info_late)
         retval == c.st = "ok" /\ chk.retval
         cur == [k |-> k, offset |-> CuOffset(k),
                 address_size |-> c.address_size, die_addrs |-> die_addrs,
                 die_refs |-> global_refs_of(c.ref), local_die_refs |-> local,
                 who |-> who, walked |-> c.st = "ok"]
     IN /\ cu_chain' = <<cur>> \o cu_chain
        /\ info_success' = retval
        /\ info_pc' = IF retval THEN "loop" ELSE "after_loop"
        /\ wr_calls(calls)
        /\ info_log' = info_log \cup Logged(calls)
        /\ info_max' = ord.max /\ info_late' = ord.late
  /\ UNCHANGED info_ret
  /\ info_frame

\* After the loop: the address sizes are compared, the global references
\* are resolved, and the chain is dropped unless everything succeeded.
info_after_loop ==
  /\ info_pc = "after_loop"
  /\ LET m == address_size_loop(cu_chain, 1, 0)
         sizes == IF m # 0
                  THEN <<Call("message", {mc_info}, "address_size",
                              cu_chain[m].k, 0)>>
                  ELSE <<>>
         glob == check_global_die_references(cu_chain)
         calls == sizes \o glob.calls
         offs == [n \in DOMAIN sizes |-> cu_chain[m].offset]
                 \o [n \in DOMAIN glob.calls |->
                       cu_chain[Len(cu_chain) + 1 - glob.calls[n].cu].who]
         ord == order_fold(calls, offs, info_max, info_late)
     IN /\ wr_calls(calls)
        /\ info_log' = info_log \cup Logged(calls)
        /\ info_max' = ord.max /\ info_late' = ord.late
        /\ info_ret' = IF info_success /\ glob.retval
                       THEN Reverse(cu_chain) ELSE <<>>
  /\ info_pc' = "returned"
  /\ UNCHANGED <<cu_chain, info_success>>
  /\ info_frame

NextInfo ==
  \/ info_eof
  \/ \E kind \in {"padding", "zero_length_at_end", "bad_header"} :
       info_cu_header(kind)
  \/ \E c \in CuInputs : info_cu(c)
  \/ info_after_loop

SpecInfo == InitInfo /\ [][NextInfo]_vars

(***************************************************************************)
(* Claims about the CU chain.                                              *)
(***************************************************************************)
ChainDieAddrs == UNION {cu_chain[i].die_addrs : i \in DOMAIN cu_chain}
UnresolvedLocal(cu) == cu.local_die_refs \ cu.die_addrs
UnresolvedGlobal(cu) == cu.die_refs \ ChainDieAddrs
LoggedError(kind, k, addr) ==
  [kind |-> kind, cu |-> k, addr |-> addr, sev |-> "error"] \in info_log

\* The CUs of a returned chain have all their recorded references resolved.
ReturnedChainResolved ==
  info_ret # <<>> =>
    \A i \in DOMAIN cu_chain :
      UnresolvedLocal(cu_chain[i]) = {} /\ UnresolvedGlobal(cu_chain[i]) = {}

\* C11 as stated: a returned non-empty chain has every recorded local
\* reference inside the DIE offsets of its CU and every global reference
\* inside those of some CU, and every recorded reference that fails this is
\* reported as an unresolved reference and makes the loader return no CUs.
C11_EveryFailingRefReported ==
  info_pc = "returned" =>
    /\ ReturnedChainResolved
    /\ \A i \in DOMAIN cu_chain :
         /\ \A r \in UnresolvedLocal(cu_chain[i]) :
              LoggedError("unresolved_local", cu_chain[i].k, r) /\ info_ret = <<>>
         /\ \A r \in UnresolvedGlobal(cu_chain[i]) :
              LoggedError("unresolved_global", cu_chain[i].k, r) /\ info_ret = <<>>

\* C11 amended: a returned non-empty chain has every recorded local
\* reference inside the DIE offsets of its CU and every global reference
\* inside those of some CU; every recorded reference that fails this makes
\* the loader return no CUs, and it is reported as an unresolved reference
\* unless it is a local reference of a CU whose walk ended with a failure
\* (the local references of such a CU are not looked up).
C11_FailingRefFatal ==
  info_pc = "returned" =>
    /\ ReturnedChainResolved
    /\ \A i \in DOMAIN cu_chain :
         /\ \A r \in UnresolvedLocal(cu_chain[i]) :
              /\ info_ret = <<>>
              /\ (cu_chain[i].walked =>
                    LoggedError("unresolved_local", cu_chain[i].k, r))
         /\ \A r \in UnresolvedGlobal(cu_chain[i]) :
              LoggedError("unresolved_global", cu_chain[i].k, r) /\ info_ret = <<>>

\* C11 witness: the second CU was walked to its end and carries a local
\* reference to an offset where it has no DIE; no chain is returned.
C11_Witness ==
  /\ info_pc = "returned" /\ Len(cu_chain) = 2 /\ info_ret = <<>>
  /\ cu_chain[1].walked /\ UnresolvedLocal(cu_chain[1]) # {}
  /\ cu_chain[2].die_refs # {} /\ UnresolvedGlobal(cu_chain[2]) = {}

\* C12 as stated: two CUs with different address sizes are reported with a
\* diagnostic of severity error, and the mismatch does not make the loader
\* drop the chain.
SizesDiffer ==
  \E i, j \in DOMAIN cu_chain :
    /\ cu_chain[i].address_size # 0 /\ cu_chain[j].address_size # 0
    /\ cu_chain[i].address_size # cu_chain[j].address_size
SizeDiagnostics == {e \in info_log : e.kind = "address_size"}
ChainKept ==
  (info_success /\ \A e \in info_log : e.kind # "unresolved_global")
    => info_ret = Reverse(cu_chain)

C12_MismatchIsError ==
  (info_pc = "returned" /\ SizesDiffer) =>
    /\ SizeDiagnostics # {}
    /\ \A e \in SizeDiagnostics : e.sev = "error"
    /\ ChainKept

\* C12 amended: two CUs with different address sizes are reported with a
\* diagnostic of severity warning, and the mismatch does not make the
\* loader drop the chain.
C12_MismatchIsWarning ==
  (info_pc = "returned" /\ SizesDiffer) =>
    /\ SizeDiagnostics # {}
    /\ \A e \in SizeDiagnostics : e.sev = "warning"
    /\ ChainKept

\* C12 witness: a chain of two CUs of sizes 4 and 8 is returned.
C12_Witness ==
  /\ info_pc = "returned" /\ SizesDiffer /\ Len(info_ret) = 2
  /\ SizeDiagnostics # {}

(***************************************************************************)
(* check_loc_or_range_structural over .debug_ranges (no location           *)
(* expressions, no relocations, 4-byte addresses, one CU).  Offsets count  *)
(* address-sized words: an entry of a list is two words.  The references   *)
(* of the CUs arrive merged and sorted by qsort.                           *)
(***************************************************************************)
MaxEntries == 3    \* longest .debug_ranges section, in entries
MaxRefs == 2       \* most references into the section

Escape == -1       \* (uint32_t)-1 as the beginning of an entry
NoBase == -2       \* cu->low_pc == (uint64_t)-1: no base address

RangeEntries == {<<0, 0>>, <<Escape, 0>>, <<1, 3>>, <<2, 4>>, <<2, 2>>, <<3, 1>>}

RECURSIVE SeqsUpTo(_, _)
SeqsUpTo(S, n) ==
  IF n = 0 THEN {<<>>}
  ELSE LET shorter == SeqsUpTo(S, n - 1)
       IN shorter \cup {Append(q, x) : q \in shorter, x \in S}

RangeSections == {Flatten(es) : es \in SeqsUpTo(RangeEntries, MaxEntries)}

\* The references after qsort (compare_refs): offsets 0 .. one past the
\* size of the section, in non-decreasing order.
RangeRefs(sec) ==
  {r \in SeqsUpTo(0..(Len(sec) + 1), MaxRefs) :
     r # <<>> /\ \A i \in 1..(Len(r) - 1) : r[i] <= r[i + 1]}

\* coverage_is_covered, coverage_is_overlap, coverage_add over a set of
\* covered offsets.
coverage_is_covered(cov, start, length) ==
  \A o \in start..(start + length - 1) : o \in cov
coverage_is_overlap(cov, start, length) ==
  \E o \in start..(start + length - 1) : o \in cov
coverage_add(cov, start, length) == cov \cup (start..(start + length - 1))

\* The holes coverage_find_holes hands to found_hole: the maximal runs of
\* offsets not covered, by their first offset.
HoleStarts(cov, size) ==
  {o \in 0..(size - 1) : o \notin cov /\ (o = 0 \/ (o - 1) \in cov)}
HoleEnd(cov, size, start) ==
  CHOOSE e \in (start + 1)..size :
    /\ \A o \in start..(e - 1) : o \notin cov
    /\ (e = size \/ e \in cov)

\* Variant: every reference is checked, also one to the offset checked last.
same_list_as_last_never(i, off, last_off) == FALSE

\* if (i > 0) { if (off == last_off) continue; ... }
same_list_as_last(i, off, last_off) == i > 1 /\ off = last_off

\* Variant: the overlap is raised wherever it has not been raised before.
have_overlap_uncovered(overlap, cov, off) == ~overlap

\* if (!overlap && coverage_is_overlap (coverage, off, addr_64 ? 8 : 4))
have_overlap(overlap, cov, off) == ~overlap /\ coverage_is_overlap(cov, off, 1)

InitLocRange ==
  /\ IdleMain("ranges_section")
  /\ IdleAux
  /\ IdleCri
  /\ IdleRel
  /\ IdleAbbrev
  /\ IdleDie
  /\ IdleInfo
  /\ lr_sec \in RangeSections
  /\ lr_refs \in RangeRefs(lr_sec)
  /\ lr_low_pc \in {0, NoBase}
  /\ lr_i = 1 /\ lr_pc = "refs" /\ lr_ctx = 0 /\ lr_cov = {}
  /\ lr_retval = TRUE /\ lr_ref_ret = TRUE /\ lr_overlap = FALSE
  /\ lr_base = 0 /\ lr_last_off = 0 /\ lr_log = {}
  /\ IdleAranges
  /\ IdleLine

lr_frame == UNCHANGED <<flagVars, warning_criteria, error_criteria,
                        mainVars, criVars, relVars, abbrVars, dieVars,
                        infoVars, arVars, lnVars, auxVars, lr_sec, lr_refs,
                        lr_low_pc>>

\* check_loc_or_range_ref returns: back in the loop over the references.
lr_return(ret) ==
  /\ lr_retval' = (lr_retval /\ ret)
  /\ lr_last_off' = lr_refs[lr_i]
  /\ lr_i' = lr_i + 1
  /\ lr_pc' = "refs"

\* One turn of the loop over the sorted references, up to the loop over
\* the entries of the list referred to.
lr_next_ref ==
  /\ lr_pc = "refs" /\ lr_i <= Len(lr_refs)
  /\ LET off == lr_refs[lr_i]
     IN IF same_list_as_last(lr_i, off, lr_last_off)
        THEN /\ lr_i' = lr_i + 1
             /\ UNCHANGED <<lr_pc, lr_ctx, lr_cov, lr_retval, lr_ref_ret,
                            lr_overlap, lr_base, lr_last_off, lr_log,
                            diagVars>>
        ELSE IF off > Len(lr_sec)
        THEN LET calls == <<Call("error", mc_none, "invalid_ref", lr_i, off)>>
             IN /\ wr_calls(calls)
                /\ lr_log' = lr_log \cup Logged(calls)
                /\ lr_return(FALSE)
                /\ UNCHANGED <<lr_ctx, lr_cov, lr_ref_ret, lr_overlap, lr_base>>
        ELSE LET covered == coverage_is_covered(lr_cov, off, 1)
                 calls == IF covered
                          THEN <<Call("error", mc_none, "points_into", lr_i, off)>>
                          ELSE <<>>
             IN /\ wr_calls(calls)
                /\ lr_log' = lr_log \cup Logged(calls)
                /\ lr_ref_ret' = ~covered
                /\ lr_overlap' = FALSE
                /\ lr_base' = lr_low_pc
                /\ lr_ctx' = off
                /\ lr_pc' = "entry"
                /\ UNCHANGED <<lr_i, lr_cov, lr_retval, lr_last_off>>
  /\ lr_frame

\* One turn of the loop over the entries of a list.
lr_entry ==
  /\ lr_pc = "entry"
  /\ IF lr_ctx = Len(lr_sec)
     THEN /\ lr_return(lr_ref_ret)
          /\ UNCHANGED <<lr_ctx, lr_cov, lr_ref_ret, lr_overlap, lr_base,
                         lr_log, diagVars>>
     ELSE LET begin_off == lr_ctx
              end_off == lr_ctx + 1
              ov1 == have_overlap(lr_overlap, lr_cov, begin_off)
              overlap1 == lr_overlap \/ ov1
              c1 == IF ov1
                    THEN <<Call("error", mc_none, "overlap", lr_i, begin_off)>>
                    ELSE <<>>
          IN IF end_off = Len(lr_sec)
             THEN LET calls == c1 \o <<Call("error", mc_none, "cant_read",
                                            lr_i, begin_off)>>
                  IN /\ wr_calls(calls)
                     /\ lr_log' = lr_log \cup Logged(calls)
                     /\ lr_return(FALSE)
                     /\ lr_overlap' = overlap1
                     /\ lr_ref_ret' = FALSE
                     /\ lr_ctx' = Len(lr_sec)
                     /\ UNCHANGED <<lr_cov, lr_base>>
             ELSE LET begin_addr == lr_sec[begin_off + 1]
                      end_addr == lr_sec[end_off + 1]
                      ov2 == have_overlap(overlap1, lr_cov, end_off)
                      overlap2 == overlap1 \/ ov2
                      c2 == IF ov2
                            THEN <<Call("error", mc_none, "overlap", lr_i,
                                        begin_off)>>
                            ELSE <<>>
                      ret == lr_ref_ret /\ ~overlap2
                      done == begin_addr = 0 /\ end_addr = 0
                      live == ~done /\ begin_addr # Escape
                      c3 == IF live /\ lr_base = NoBase
                            THEN <<Call("error", mc_none, "no_base", lr_i,
                                        begin_off)>>
                            ELSE <<>>
                      c4 == IF live /\ end_addr < begin_addr
                            THEN <<Call("message", {mc_ranges} \cup {mc_error},
                                        "negative", lr_i, begin_off)>>
                            ELSE IF live /\ begin_addr = end_addr
                            THEN <<Call("message",
                                        {mc_ranges} \cup {mc_acc_bloat, mc_impact_3},
                                        "no_range", lr_i, begin_off)>>
                            ELSE <<>>
                      c5 == IF ~done /\ ~live /\ end_addr = lr_base
                            THEN <<Call("message",
                                        {mc_ranges} \cup {mc_acc_bloat, mc_impact_3},
                                        "base_unchanged", lr_i, begin_off)>>
                            ELSE <<>>
                      calls == c1 \o c2 \o c3 \o c4 \o c5
                  IN /\ wr_calls(calls)
                     /\ lr_log' = lr_log \cup Logged(calls)
                     /\ lr_overlap' = overlap2
                     /\ lr_ref_ret' = ret
                     /\ lr_base' = IF ~done /\ ~live THEN end_addr ELSE lr_base
                     /\ lr_cov' = coverage_add(lr_cov, begin_off, 2)
                     /\ lr_ctx' = lr_ctx + 2
                     /\ IF done
                        THEN lr_return(ret)
                        ELSE UNCHANGED <<lr_i, lr_pc, lr_retval, lr_last_off>>
  /\ lr_frame

\* After the last reference: the holes of the coverage are reported if no
\* list failed.
lr_finish ==
  /\ lr_pc = "refs" /\ lr_i > Len(lr_refs)
  /\ LET starts == SetToSeq(HoleStarts(lr_cov, Len(lr_sec)))
         calls == IF lr_retval
                  THEN [n \in DOMAIN starts |->
                          Call("message",
                               {mc_ranges} \cup {mc_acc_bloat, mc_impact_1},
                               IF \A o \in starts[n]..(HoleEnd(lr_cov, Len(lr_sec), starts[n]) - 1) :
                                    lr_sec[o + 1] = 0
                               THEN "padding_0" ELSE "padding_n0",
                               0, starts[n])]
                  ELSE <<>>
     IN /\ wr_calls(calls)
        /\ lr_log' = lr_log \cup Logged(calls)
  /\ lr_pc' = "done"
  /\ UNCHANGED <<lr_i, lr_ctx, lr_cov, lr_retval, lr_ref_ret, lr_overlap,
                 lr_base, lr_last_off>>
  /\ lr_frame

NextLocRange ==
  \/ lr_next_ref
  \/ lr_entry
  \/ lr_finish

SpecLocRange == InitLocRange /\ [][NextLocRange]_vars

(***************************************************************************)
(* Claims about the lists of .debug_ranges.                                *)
(***************************************************************************)
\* Reference i names the offset an earlier reference named.
RepeatedRef(i) == \E j \in 1..(i - 1) : lr_refs[j] = lr_refs[i]
LoggedFor(kind, i) == \E e \in lr_log : e.kind = kind /\ e.cu = i

\* C13 as stated: when the same listhead offset is referenced twice, the
\* second reference is reported with "reference points into another
\* location or range list".
C13_SecondReferenceReported ==
  lr_pc = "done" =>
    \A i \in DOMAIN lr_refs :
      (RepeatedRef(i) /\ lr_refs[i] < Len(lr_sec)) => LoggedFor("points_into", i)

\* C13 amended: when the same listhead offset is referenced twice, the list
\* is checked once, for the first reference; the second reference is passed
\* over and no diagnostic is reported for it.
C13_SecondReferenceSkipped ==
  lr_pc = "done" =>
    \A i \in DOMAIN lr_refs :
      RepeatedRef(i) => \A e \in lr_log : e.cu # i

\* C13 witness: two references to the list at offset 0, which has a live
\* entry and its terminator; the section was checked to its end.
C13_Witness ==
  /\ lr_pc = "done" /\ lr_refs = <<0, 0>> /\ lr_retval
  /\ lr_sec = <<1, 3, 0, 0>>

\* A list read from offset off holds two live entries whose address
\* intervals intersect, before its terminator.
LiveAt(o) ==
  /\ o + 2 <= Len(lr_sec)
  /\ lr_sec[o + 1] # Escape
  /\ lr_sec[o + 1] < lr_sec[o + 2]
RECURSIVE ListEntries(_)
ListEntries(o) ==
  IF o + 2 > Len(lr_sec) \/ (lr_sec[o + 1] = 0 /\ lr_sec[o + 2] = 0)
  THEN {}
  ELSE {o} \cup ListEntries(o + 2)
IntersectingList(off) ==
  \E a, b \in ListEntries(off) :
    /\ a < b /\ LiveAt(a) /\ LiveAt(b)
    /\ lr_sec[a + 1] < lr_sec[b + 2] /\ lr_sec[b + 1] < lr_sec[a + 2]

\* C14 as stated: a single range list whose live entries describe
\* intersecting address intervals gets the error "range definitions
\* overlap".
C14_IntersectingIntervalsReported ==
  (lr_pc = "done" /\ Len(lr_refs) = 1 /\ lr_refs[1] <= Len(lr_sec)
     /\ IntersectingList(lr_refs[1]))
    => LoggedFor("overlap", 1)

\* C14 amended: a single range list gets no "range definitions overlap"
\* error, whatever address intervals its entries describe; the error is
\* reported for a list only when bytes of its entries were covered by a
\* list checked before it, that is, after "reference points into another
\* location or range list" was reported for the same reference.
C14_OverlapIsOfSectionBytes ==
  lr_pc = "done" =>
    \A i \in DOMAIN lr_refs :
      LoggedFor("overlap", i) => (i > 1 /\ LoggedFor("points_into", i))

\* C14 witness: the one list of the section holds [1, 3) and [2, 4) and is
\* checked without an overlap error.
C14_Witness ==
  /\ lr_pc = "done" /\ lr_refs = <<0>> /\ lr_sec = <<1, 3, 2, 4, 0, 0>>
  /\ IntersectingList(0) /\ ~LoggedFor("overlap", 1) /\ lr_retval

\* A list that begins inside another one gets both errors.
C14_OverlapReached ==
  /\ lr_pc = "done" /\ LoggedFor("overlap", 2) /\ LoggedFor("points_into", 2)

(***************************************************************************)
(* check_aranges_structural: one table of .debug_aranges, its header and   *)
(* the loop over its tuples.  A tuple is the address as it stands after a  *)
(* relocation was applied (a relocated field holds zero bytes in the       *)
(* section), whether the field was relocated, and the length.              *)
(***************************************************************************)
MaxTuples == 3     \* most tuples of an aranges table

mc_reloc == 20

Tuples == [address : {0, 1}, relocated : BOOLEAN, length : {0, 1}]
ArangeInputs == SeqsUpTo(Tuples, MaxTuples)

\* Variant: the relocation of the address field is not looked at.
is_terminator_raw(address, length, address_relocated) ==
  address = 0 /\ length = 0

\* if (address == 0 && length == 0 && !address_relocated) break;
is_terminator(address, length, address_relocated) ==
  address = 0 /\ length = 0 /\ ~address_relocated

\* The bytes of a tuple in the section are all zero.
ZeroBytes(t) == ~t.relocated /\ t.address = 0 /\ t.length = 0

InitAranges ==
  /\ IdleMain("aranges_section")
  /\ IdleAux
  /\ IdleCri
  /\ IdleRel
  /\ IdleAbbrev
  /\ IdleDie
  /\ IdleInfo
  /\ IdleLocRange
  /\ ar_in \in ArangeInputs
  /\ ar_short \in {"none", "address", "length"}
  /\ ar_et_rel \in BOOLEAN
  /\ ar_coverage \in BOOLEAN
  /\ ar_hdr = NoHeader
  /\ ar_pos = 1 /\ ar_pc = "header" /\ ar_retval = TRUE /\ ar_cov = {}
  /\ ar_term = 0 /\ ar_log = {}
  /\ IdleLine

ar_frame == UNCHANGED <<flagVars, warning_criteria, error_criteria,
                        mainVars, criVars, relVars, abbrVars, dieVars,
                        infoVars, lrVars, lnVars, auxVars, ar_in, ar_short,
                        ar_et_rel, ar_coverage>>

\* The headers: the address size the table declares, and what became of
\* its CU offset: no CU chain (-1), a chain without a CU at that offset
\* (-2), or the address_size of the CU found there (0 in a record whose
\* header was not read).
ArangeHeaders == [address_size : {0, 4, 8, 128}, cu : {-2, -1, 0, 4}]

\* const uint8_t tuple_size = 2 * address_size.
tuple_size(address_size) == (2 * address_size) % 256

\* The header of the table: length, version, CU offset, address size,
\* segment size, padding up to the first tuple.  With a tuple size of 0
\* the padding computation divides by zero: the process stops, at the
\* division or at the assertion behind it.
ar_header(ok, h) ==
  /\ ar_pc = "header"
  /\ LET c1 == IF h.cu = -2
               THEN <<Call("error", mc_none, "unresolved_cu", 0, 0)>>
               ELSE <<>>
         mismatch == h.cu >= 0 /\ h.address_size # h.cu
         invalid == h.cu < 0 /\ h.address_size # 4 /\ h.address_size # 8
         c2 == IF mismatch
               THEN <<Call("error", mc_none, "address_size_mismatch", 0, 0)>>
               ELSE IF invalid
               THEN <<Call("error", mc_none, "invalid_address_size", 0, 0)>>
               ELSE <<>>
         calls == IF ~ok THEN <<Call("error", mc_none, "header", 0, 0)>>
                  ELSE c1 \o c2
         reached == ok /\ ~invalid
     IN /\ wr_calls(calls)
        /\ ar_log' = ar_log \cup Logged(calls)
        /\ ar_retval' = (ok /\ ~mismatch /\ ~invalid)
        /\ ar_hdr' = IF ok THEN h ELSE NoHeader
        /\ IF ~reached THEN ar_pc' = "done"
           ELSE IF tuple_size(h.address_size) = 0
           THEN ar_pc' \in {"trapped", "assert_failed"}
           ELSE ar_pc' = "tuples"
  /\ UNCHANGED <<ar_pos, ar_cov, ar_term>>
  /\ ar_frame

\* One turn of the loop over the tuples.
ar_tuple ==
  /\ ar_pc = "tuples"
  /\ IF ar_pos > Len(ar_in)
     THEN IF ar_short = "none"
          THEN /\ ar_pc' = "after"
               /\ UNCHANGED <<ar_pos, ar_retval, ar_cov, ar_term, ar_log,
                              diagVars>>
          ELSE LET calls == <<Call("error", mc_none,
                                   IF ar_short = "address"
                                   THEN "cant_read_address"
                                   ELSE "cant_read_length", ar_pos, 0)>>
               IN /\ wr_calls(calls)
                  /\ ar_log' = ar_log \cup Logged(calls)
                  /\ ar_retval' = FALSE
                  /\ ar_pc' = "done"
                  /\ UNCHANGED <<ar_pos, ar_cov, ar_term>>
     ELSE LET t == ar_in[ar_pos]
              term == is_terminator(t.address, t.length, t.relocated)
              range == t.address..(t.address + t.length - 1)
              add == ~term /\ t.length # 0 /\ ar_retval /\ ar_coverage
              c1 == IF ~t.relocated /\ ar_et_rel /\ t.address # 0
                    THEN <<Call("message", {mc_impact_2, mc_aranges, mc_reloc},
                                "lack_relocation", ar_pos, 0)>>
                    ELSE <<>>
              c2 == IF ~term /\ t.length = 0
                    THEN <<Call("error", mc_none, "zero_length", ar_pos, 0)>>
                    ELSE <<>>
              c3 == IF add /\ range \cap ar_cov # {} /\ ~be_gnu /\ ~be_tolerant
                    THEN <<Call("message", {mc_aranges, mc_impact_2, mc_error},
                                "overlaps", ar_pos, 0)>>
                    ELSE <<>>
              calls == c1 \o c2 \o c3
          IN /\ wr_calls(calls)
             /\ ar_log' = ar_log \cup Logged(calls)
             /\ ar_cov' = IF add THEN ar_cov \cup range ELSE ar_cov
             /\ ar_pos' = ar_pos + 1
             /\ ar_term' = IF term THEN ar_pos ELSE ar_term
             /\ ar_pc' = IF term THEN "after" ELSE "tuples"
             /\ UNCHANGED ar_retval
  /\ UNCHANGED ar_hdr
  /\ ar_frame

\* After the loop: what is left of the table must be zero padding.
ar_after ==
  /\ ar_pc = "after"
  /\ LET rest == {p \in DOMAIN ar_in : p >= ar_pos}
         zero == \A p \in rest : ZeroBytes(ar_in[p])
         calls == IF rest = {} /\ ar_short = "none" THEN <<>>
                  ELSE IF zero /\ ar_short = "none"
                  THEN <<Call("message",
                              {mc_aranges, mc_acc_bloat, mc_impact_1},
                              "padding_0", ar_pos, 0)>>
                  ELSE <<Call("message",
                              {mc_aranges, mc_error, mc_acc_bloat, mc_impact_1},
                              "padding_n0", ar_pos, 0)>>
     IN /\ wr_calls(calls)
        /\ ar_log' = ar_log \cup Logged(calls)
        /\ ar_retval' = (ar_retval /\ \A n \in DOMAIN calls :
                                        calls[n].kind # "padding_n0")
  /\ ar_pc' = "done"
  /\ UNCHANGED <<ar_pos, ar_cov, ar_term>>
  /\ UNCHANGED ar_hdr
  /\ ar_frame

NextAranges ==
  \/ \E ok \in BOOLEAN, h \in ArangeHeaders : ar_header(ok, h)
  \/ ar_tuple
  \/ ar_after

SpecAranges == InitAranges /\ [][NextAranges]_vars

\* The tuples the loop has read.
TuplesRead == {p \in DOMAIN ar_in : p < ar_pos}
ZeroLengthLogged(p) ==
  [kind |-> "zero_length", cu |-> p, addr |-> 0, sev |-> "error"] \in ar_log

\* C15: in the tuple loop a tuple ends the table iff its address is 0, its
\* length is 0 and its address field was not relocated; every other tuple
\* of length 0 is reported with the error "zero-length address range" and
\* the loop goes on with the next tuple.
C15_TerminatorAndZeroLength ==
  \A p \in TuplesRead :
    LET t == ar_in[p]
        term == t.address = 0 /\ t.length = 0 /\ ~t.relocated
    IN /\ (ar_term = p <=> term)
       /\ ((t.length = 0 /\ ~term) <=> ZeroLengthLogged(p))
       /\ (~term => /\ ar_pc \in {"tuples", "after", "done"}
                    /\ (ar_pc = "tuples" \/ ar_pos > p + 1
                          \/ ar_pos > Len(ar_in)))

\* C15 witness: the tuple (1, 0) and a relocated tuple (0, 0) were both
\* reported and the loop went on to a third tuple.
C15_Witness ==
  /\ Len(ar_in) = 3 /\ ar_pos = 4 /\ ar_term = 3
  /\ ar_in[1] = [address |-> 1, relocated |-> FALSE, length |-> 0]
  /\ ar_in[2] = [address |-> 0, relocated |-> TRUE, length |-> 0]
  /\ ZeroLengthLogged(1) /\ ZeroLengthLogged(2)

(***************************************************************************)
(* check_line_structural: one table of .debug_line from the end of its     *)
(* header fields on.  ln_in holds the bytes of the table that follow the   *)
(* header fields, ln_ptr is sub_ctx.ptr as an offset into them (sub_ctx.end *)
(* is at Len(ln_in)), ln_gap is program_start - sub_ctx.ptr as the header  *)
(* declares it.  The header declares the standard opcodes with their usual *)
(* operand counts and no include directory.  The bytes are 0 (the prefix   *)
(* of an extended opcode), 1 (DW_LNS_copy as an opcode, DW_LNE_end_sequence *)
(* as an extended opcode) and 5 (DW_LNS_set_column, which takes one ULEB   *)
(* operand; an extended opcode that is not known).                         *)
(***************************************************************************)
MaxProg == 4       \* most bytes after the header fields of a line table

DW_LNE_end_sequence == 1
DW_LNS_copy == 1
DW_LNS_set_column == 5

LineBytes == {0, DW_LNS_copy, DW_LNS_set_column}
LineInputs == SeqsUpTo(LineBytes, MaxProg)
\* header_length against the header fields read: one byte short, exact,
\* one or two bytes of padding, more than the table holds.
HeaderGaps == {-1, 0, 1, 2, 7}

\* read_ctx_need_data, read_ctx_eof over offsets.
read_ctx_need_data(ptr, end, length) == end - ptr >= length
read_ctx_eof(ptr, end) == ~read_ctx_need_data(ptr, end, 1)

\* check_zero_padding from ptr: the bytes up to the end of the cursor are
\* all zero.
check_zero_padding(bytes, ptr) ==
  \A o \in ptr..(Len(bytes) - 1) : bytes[o + 1] = 0

\* Variant: the error does not ask whether an opcode was seen.
unterminated_any(terminated, seen_opcode) == ~terminated

\* if (!terminated) { if (seen_opcode) wr_error (...) }
unterminated(terminated, seen_opcode) == ~terminated /\ seen_opcode

InitLine ==
  /\ IdleMain("line_section")
  /\ IdleAux
  /\ IdleCri
  /\ IdleRel
  /\ IdleAbbrev
  /\ IdleDie
  /\ IdleInfo
  /\ IdleLocRange
  /\ IdleAranges
  /\ ln_in \in LineInputs
  /\ ln_gap \in HeaderGaps
  /\ ln_files \in {0, 1}
  /\ ln_ptr = 0 /\ ln_pc = "header" /\ ln_terminated = FALSE
  /\ ln_seen_opcode = FALSE /\ ln_first_file = TRUE /\ ln_file_used = FALSE
  /\ ln_retval = TRUE /\ ln_exit = "none" /\ ln_hist = {} /\ ln_log = {}

ln_frame == UNCHANGED <<flagVars, warning_criteria, error_criteria,
                        mainVars, criVars, relVars, abbrVars, dieVars,
                        infoVars, lrVars, arVars, auxVars, ln_in, ln_gap,
                        ln_files>>

ln_flags == <<ln_terminated, ln_seen_opcode, ln_first_file, ln_file_used>>

\* goto skip: the table is left without the checks that follow the loop.
ln_skip(calls) ==
  /\ wr_calls(calls)
  /\ ln_log' = ln_log \cup Logged(calls)
  /\ ln_retval' = FALSE
  /\ ln_exit' = "skip"
  /\ ln_pc' = "done"

\* assert (ctx->ptr != ctx->end) of check_zero_padding fails.
ln_abort ==
  /\ ln_pc' = "assert_failed"
  /\ UNCHANGED <<ln_ptr, ln_flags, ln_retval, ln_exit, ln_hist, ln_log,
                 diagVars>>

\* sub_ctx.ptr = target.  A target past the end of the table is a pointer
\* the C language does not define: the cursor stands past its end, or the
\* program stops.
ln_jump(target, wild) ==
  IF target > Len(ln_in) /\ wild
  THEN ln_pc' = "aborted" /\ UNCHANGED ln_ptr
  ELSE ln_pc' = "opcodes" /\ ln_ptr' = target

PaddingCalls(cat, handled) ==
  IF ~handled THEN <<>>
  ELSE IF check_zero_padding(ln_in, ln_ptr)
  THEN <<Call("message", cat \cup {mc_acc_bloat, mc_impact_1}, "padding_0",
              0, ln_ptr)>>
  ELSE <<Call("message", cat \cup {mc_acc_bloat, mc_impact_1}, "padding_n0",
              0, ln_ptr)>>

\* The fields of the header, the directories and the files.
ln_header(ok) ==
  /\ ln_pc = "header"
  /\ IF ok
     THEN /\ ln_pc' = "program_start"
          /\ UNCHANGED <<ln_retval, ln_exit, ln_log, diagVars>>
     ELSE ln_skip(<<Call("error", mc_none, "header", 0, 0)>>)
  /\ UNCHANGED <<ln_ptr, ln_flags, ln_hist>>
  /\ ln_frame

\* "Skip the rest of the header."
ln_program_start(wild) ==
  /\ ln_pc = "program_start"
  /\ LET program_start == ln_ptr + ln_gap
     IN IF ln_ptr > program_start
        THEN LET calls == <<Call("error", mc_none, "header_lied", 0, ln_ptr)>>
             IN /\ wr_calls(calls)
                /\ ln_log' = ln_log \cup Logged(calls)
                /\ ln_retval' = FALSE
                /\ ln_pc' = "opcodes"
                /\ ~wild
                /\ UNCHANGED <<ln_ptr, ln_exit>>
        ELSE IF ln_ptr < program_start
        THEN IF ln_ptr = Len(ln_in)
             THEN ln_abort /\ ~wild
             ELSE LET calls == PaddingCalls({mc_line, mc_header}, TRUE)
                  IN /\ wr_calls(calls)
                     /\ ln_log' = ln_log \cup Logged(calls)
                     /\ ln_jump(program_start, wild)
                     /\ (wild => program_start > Len(ln_in))
                     /\ UNCHANGED <<ln_retval, ln_exit>>
        ELSE /\ ln_pc' = "opcodes"
             /\ ~wild
             /\ UNCHANGED <<ln_ptr, ln_retval, ln_exit, ln_log, diagVars>>
  /\ UNCHANGED <<ln_flags, ln_hist>>
  /\ ln_frame

\* What follows the switch on the opcode: use_file (1) at the first opcode,
\* seen_opcode.
ln_opcode_done(calls, ptr, wild, terminated, is_end, failed) ==
  LET no_file == ln_first_file /\ ln_files = 0
      all == calls \o (IF no_file
                       THEN <<Call("error", mc_none, "invalid_file", 0, ln_ptr)>>
                       ELSE <<>>)
  IN /\ wr_calls(all)
     /\ ln_log' = ln_log \cup Logged(all)
     /\ ln_retval' = (ln_retval /\ ~failed /\ ~no_file)
     /\ ln_first_file' = FALSE
     /\ ln_file_used' = (ln_file_used \/ (ln_first_file /\ ln_files > 0))
     /\ ln_terminated' = terminated
     /\ ln_seen_opcode' = (ln_seen_opcode \/ ~is_end)
     /\ ln_hist' = ln_hist \cup {IF is_end THEN "end_sequence" ELSE "other"}
     /\ ln_jump(ptr, wild)
     /\ (wild => ptr > Len(ln_in))
     /\ UNCHANGED ln_exit

\* One turn of the loop over the opcodes.
ln_opcode(wild) ==
  /\ ln_pc = "opcodes"
  /\ LET end == Len(ln_in)
         byte(o) == ln_in[o + 1]
         cant(kind) ==
           /\ ln_skip(<<Call("error", mc_none, kind, 0, ln_ptr)>>)
           /\ ~wild
           /\ UNCHANGED <<ln_ptr, ln_flags, ln_hist>>
     IN IF read_ctx_eof(ln_ptr, end)
        THEN /\ ln_pc' = "table_end"
             /\ ~wild
             /\ UNCHANGED <<ln_ptr, ln_flags, ln_retval, ln_exit, ln_hist,
                            ln_log, diagVars>>
        ELSE LET opcode == byte(ln_ptr)
                 p1 == ln_ptr + 1
             IN IF opcode = 0
                THEN IF ~read_ctx_need_data(p1, end, 1)
                     THEN cant("cant_read_length")
                     ELSE LET skip_len == byte(p1)
                              next == p1 + 1 + skip_len
                          IN IF ~read_ctx_need_data(p1 + 1, end, 1)
                             THEN cant("cant_read_extended")
                             ELSE
                  LET extended == byte(p1 + 1)
                      p3 == p1 + 2
                      is_end == extended = DW_LNE_end_sequence
                      handled == is_end
                      c1 == IF is_end THEN <<>>
                            ELSE <<Call("message", {mc_impact_2, mc_line},
                                        "unknown_extended", 0, ln_ptr)>>
                  IN IF p3 > next
                     THEN ln_opcode_done(
                            c1 \o <<Call("error", mc_none, "opcode_lied", 0,
                                         ln_ptr)>>,
                            p3, wild, ln_terminated \/ is_end, is_end, TRUE)
                     ELSE IF p3 < next
                     THEN IF handled /\ p3 = end
                          THEN ln_abort /\ ~wild
                          ELSE LET pad == IF ~handled THEN <<>>
                                          ELSE IF \A o \in p3..(end - 1) : byte(o) = 0
                                          THEN <<Call("message",
                                                      {mc_line, mc_acc_bloat, mc_impact_1},
                                                      "padding_0", 0, p3)>>
                                          ELSE <<Call("message",
                                                      {mc_line, mc_acc_bloat, mc_impact_1},
                                                      "padding_n0", 0, p3)>>
                               IN ln_opcode_done(c1 \o pad, next, wild,
                                                 ln_terminated \/ is_end,
                                                 is_end, FALSE)
                     ELSE ln_opcode_done(c1, p3, wild,
                                         ln_terminated \/ is_end, is_end, FALSE)
                ELSE IF opcode = DW_LNS_set_column
                THEN IF ~read_ctx_need_data(p1, end, 1)
                     THEN cant("cant_read_operand")
                     ELSE ln_opcode_done(<<>>, p1 + 1, wild, ln_terminated,
                                         FALSE, FALSE)
                ELSE ln_opcode_done(<<>>, p1, wild, ln_terminated, FALSE, FALSE)
  /\ ln_frame

\* After the loop: files never used, an empty program, a program that is
\* not terminated, padding after the last sequence.
ln_table_end ==
  /\ ln_pc = "table_end"
  /\ LET c1 == IF ln_files > 0 /\ ~ln_file_used
               THEN <<Call("message",
                           {mc_impact_3, mc_acc_bloat, mc_line, mc_header},
                           "unused_file", 0, 0)>>
               ELSE <<>>
         c2 == IF ~ln_seen_opcode
               THEN <<Call("message", {mc_line, mc_acc_bloat, mc_impact_3},
                           "empty_program", 0, ln_ptr)>>
               ELSE <<>>
         c3 == IF unterminated(ln_terminated, ln_seen_opcode)
               THEN <<Call("error", mc_none, "not_terminated", 0, ln_ptr)>>
               ELSE IF ln_terminated /\ ln_ptr # Len(ln_in)
               THEN PaddingCalls({mc_line}, TRUE)
               ELSE <<>>
         calls == c1 \o c2 \o c3
     IN /\ wr_calls(calls)
        /\ ln_log' = ln_log \cup Logged(calls)
  /\ ln_exit' = "eof"
  /\ ln_pc' = "done"
  /\ UNCHANGED <<ln_ptr, ln_flags, ln_retval, ln_hist>>
  /\ ln_frame

NextLine ==
  \/ \E ok \in BOOLEAN : ln_header(ok)
  \/ \E wild \in BOOLEAN : ln_program_start(wild)
  \/ \E wild \in BOOLEAN : ln_opcode(wild)
  \/ ln_table_end

SpecLine == InitLine /\ [][NextLine]_vars

(***************************************************************************)
(* Claims about the line number program.                                   *)
(***************************************************************************)
HeaderParsed == \A e \in ln_log : e.kind # "header"
NotTerminatedLogged ==
  \E e \in ln_log : e.kind = "not_terminated" /\ e.sev = "error"
\* The opcodes read hold an opcode other than DW_LNE_end_sequence and no
\* DW_LNE_end_sequence.
OpenSequence == "other" \in ln_hist /\ "end_sequence" \notin ln_hist
\* The flag is set from the first DW_LNE_end_sequence on, and the loop is
\* left only at the end of the table or at a field that cannot be read.
StickyTerminated ==
  /\ ln_terminated <=> "end_sequence" \in ln_hist
  /\ (ln_pc = "table_end" \/ ln_exit = "eof") => ln_ptr >= Len(ln_in)

\* C16 as stated: for a table whose header parses, "sequence of opcodes not
\* terminated with DW_LNE_end_sequence" is reported iff the program holds
\* an opcode other than DW_LNE_end_sequence and no DW_LNE_end_sequence; the
\* terminated flag is never cleared and the loop goes on to the end of the
\* table after it is set.
C16_UnterminatedIffOpenSequence ==
  /\ StickyTerminated
  /\ (ln_pc = "done" /\ HeaderParsed) => (NotTerminatedLogged <=> OpenSequence)

\* C16 amended: for a table whose header parses, the error is reported iff
\* the opcode loop reaches the end of the table (no opcode or operand fails
\* to be read) and the opcodes read hold an opcode other than
\* DW_LNE_end_sequence and no DW_LNE_end_sequence; the terminated flag is
\* never cleared and the loop goes on to the end of the table after it is
\* set.
C16_UnterminatedIffOpenAtEnd ==
  /\ StickyTerminated
  /\ (ln_pc = "done" /\ HeaderParsed) =>
       (NotTerminatedLogged <=> (OpenSequence /\ ln_exit = "eof"))

\* C16 witness: DW_LNS_copy, DW_LNS_set_column with its operand, and the
\* table ends: the error is reported.
C16_Witness ==
  /\ ln_pc = "done" /\ ln_exit = "eof" /\ ln_in = <<1, 5, 1>>
  /\ NotTerminatedLogged /\ OpenSequence

\* An opcode read after DW_LNE_end_sequence leaves the flag set.
C16_OpcodeAfterEnd ==
  /\ ln_pc = "done" /\ ln_exit = "eof" /\ ln_in = <<0, 1, 1, 1>>
  /\ ln_terminated /\ "other" \in ln_hist /\ ~NotTerminatedLogged

\* C17 as stated: the cursor of the line loader stays within its bounds,
\* begin <= ptr <= end, also after the jump to the declared program start
\* and after the jump to the declared end of an extended opcode.
C17_CursorWithinBounds ==
  ln_pc # "idle" => (0 <= ln_ptr /\ ln_ptr <= Len(ln_in))

C18_LocalLate == "unresolved_local" \in info_late

(***************************************************************************)
(* Claims about the order of the section passes of process_file.           *)
(***************************************************************************)
Ran(sec) == \E i \in DOMAIN file.ran : file.ran[i] = sec
RanBefore(a, b) ==
  \E i, j \in DOMAIN file.ran : i < j /\ file.ran[i] = a /\ file.ran[j] = b

\* process_file is past the pass of .debug_line, or was cut short.
FilePassed == pc \in {"close", "crashed"}

\* .debug_info is checked only after .debug_abbrev gave a table chain;
\* .debug_ranges and .debug_loc only after .debug_info gave a CU chain;
\* no later loader is called before .debug_info's.
DependenciesFirst ==
  /\ Ran("info") => file.abbrev_chain /\ RanBefore("abbrev", "info")
  /\ \A sec \in {"ranges", "loc"} :
       Ran(sec) => file.cu_chain /\ RanBefore("info", sec)
  /\ \A sec \in LateSections : ~RanBefore(sec, "info") /\ ~RanBefore(sec, "abbrev")

\* Each of aranges, pubnames, pubtypes and line that holds data is checked
\* by the time process_file is through.
LatePresentChecked ==
  FilePassed => \A sec \in LateSections : sec \in file.present => Ran(sec)

\* C19: the sections of a file are handled in dependency order (info after
\* a non-empty abbrev chain, ranges and loc after a non-empty CU chain, no
\* loader before one it depends on), and aranges, pubnames, pubtypes and
\* line are checked whenever their data is present, CU chain or not.
C19_DependencyOrder == DependenciesFirst /\ LatePresentChecked

\* What remains of C19 when process_file is not cut short by the read of
\* SEC(str)->data.
C19_OrderUnlessTrapped ==
  DependenciesFirst /\ (pc # "crashed" => LatePresentChecked)

\* A file without CU chain whose four late sections were all checked.
C19_LateWithoutCus ==
  pc = "close" /\ ~file.cu_chain /\ \A sec \in LateSections : Ran(sec)

(***************************************************************************)
(* Claims about message_cri_neg.                                           *)
(***************************************************************************)
\* C20: the criterion returned by negating a term t accepts a category c
\* iff t does not match c (a positive bit of t gives a disjunct that wants
\* the bit absent, a negative bit one that wants it present), for every
\* bit of the vocabulary.
C20_NegAcceptsIffNoMatch ==
  cri_op.op = "neg" =>
    \A c \in SUBSET CriBits : Accepts(cri, c) <=> ~Matches(cri_op.term, c)

\* What message_cri_neg returns: a category is accepted iff it holds a
\* positive bit of t or lacks a negative bit of t, among the bits below the
\* highest one.
C20_NegAcceptsSharedBit ==
  cri_op.op = "neg" =>
    \A c \in SUBSET CriBits :
      Accepts(cri, c) <=>
        \E i \in 0..neg_last_bit :
          \/ i \in cri_op.term.positive /\ i \in c
          \/ i \in cri_op.term.negative /\ i \notin c

\* The negation of the term "line" accepts the categories with line.
C20_NegOfLine ==
  /\ cri_op.op = "neg" /\ cri_op.term = Term({mc_line}, mc_none)
  /\ Accepts(cri, {mc_line})

(***************************************************************************)
(* relocate_one under an arbitrary caller: one relocation entry as         *)
(* read_rel leaves it, a just-read value, the expected target and the      *)
(* symbol the entry names.  Values are kept at a reduced width: a word     *)
(* wraps at WordModulus, an xword (and uint64_t) at XwordModulus.          *)
(***************************************************************************)
WordModulus == 4
XwordModulus == 16

SHN_UNDEF == 0
SHN_ABS == 65521
SHN_XINDEX == 65535

\* file->sec: entry 0 is the invalid section, then the sections of the
\* file: .text, .data and .debug_info, with the addresses the layout of an
\* ET_REL file assigned.
FileSec ==
  [i \in 0..3 |->
     CASE i = 0 -> [id |-> "sec_invalid", alloc |-> FALSE, exec |-> FALSE, sh_addr |-> 0]
       [] i = 1 -> [id |-> "sec_invalid", alloc |-> TRUE, exec |-> TRUE, sh_addr |-> 3]
       [] i = 2 -> [id |-> "sec_invalid", alloc |-> TRUE, exec |-> FALSE, sh_addr |-> 6]
       [] i = 3 -> [id |-> "sec_info", alloc |-> FALSE, exec |-> FALSE, sh_addr |-> 0]]

\* The entries read_rel leaves behind: an entry with a type that is not a
\* word or an xword is marked invalid (4579-4612).
RelEntries ==
  {r \in [invalid : BOOLEAN, rel_width : {0, 1, 2, 4, 8}, addend : {0, 1, 14}] :
     ~r.invalid => r.rel_width \in {4, 8}}

\* What gelf_getsym yields: NULL, or a symbol.
NoSymbol == [st_value |-> 0, st_shndx |-> 0, section |-> FALSE, null |-> TRUE]
Symbols ==
  {NoSymbol}
  \cup [st_value : {0, 2}, st_shndx : {SHN_UNDEF, 1, 2, 3, SHN_ABS, SHN_XINDEX},
        section : BOOLEAN, null : {FALSE}]

RelocOneInputs ==
  [et_rel : BOOLEAN, rel : RelEntries, width : {4, 8}, value : {0, 9},
   offset_into : {"sec_invalid", "rel_value", "rel_address", "rel_exec",
                  "sec_info", "sec_abbrev"},
   symdata : BOOLEAN, symbol : Symbols, symptr : BOOLEAN]

\* The shdr of the section a symbol names.  An index beyond the table
\* reads whatever follows the array.
shdr_of(section_index) ==
  IF section_index \in DOMAIN FileSec
  THEN {FileSec[section_index]}
  ELSE [id : {"sec_invalid", "sec_info"}, alloc : BOOLEAN, exec : BOOLEAN,
        sh_addr : {0, 5}]

\* *value = rel->addend + sym_value; if (rel_width == 4) *value &= 0xffffffff.
mask_to_rel_width(v, rel_width) ==
  IF rel_width = 4 THEN (v % XwordModulus) % WordModulus ELSE v % XwordModulus

InitRelocOne ==
  /\ IdleMain("relocate_one")
  /\ IdleCri /\ IdleRel /\ IdleAbbrev /\ IdleDie
  /\ IdleInfo /\ IdleLocRange /\ IdleAranges /\ IdleLine /\ IdleReadRel
  /\ IdleLocExpr /\ IdleDieCheck
  /\ ro_in \in RelocOneInputs
  /\ ro_value = ro_in.value
  /\ ro_sym = "unset"
  /\ ro_pc = "call"
  /\ ro_log = {}

ro_frame == UNCHANGED <<flagVars, warning_criteria, error_criteria, mainVars,
                        criVars, relVars, abbrVars, dieVars, loaderVars, rrVars,
                        leVars, dcVars, ro_in>>

ro_return(calls, value, sym, to) ==
  /\ wr_calls(calls)
  /\ ro_log' = ro_log \cup Logged(calls)
  /\ ro_value' = value
  /\ ro_sym' = sym
  /\ ro_pc' = to
  /\ ro_frame

\* The complaints about the section of the symbol (2428-2484).
ro_target_calls(in, shdr) ==
  LET ndx == in.symbol.st_shndx
      into == in.offset_into
  IN IF into \in {"rel_value", "rel_address", "rel_exec"}
     THEN IF ndx = SHN_ABS \/ (into = "rel_address" /\ ndx = SHN_UNDEF)
          THEN <<>>
          ELSE IF into # "rel_address" /\ ndx = SHN_UNDEF
          THEN <<Call("error", mc_none, "undef_symbol", 0, 0)>>
          ELSE (IF ~shdr.alloc
                THEN <<Call("message", {mc_reloc, mc_impact_3}, "not_alloc", 0, 0)>>
                ELSE <<>>)
               \o (IF into = "rel_exec" /\ ~shdr.exec
                   THEN <<Call("message", {mc_reloc, mc_impact_2}, "suspicious", 0, 0)>>
                   ELSE <<>>)
     ELSE IF ndx \notin DOMAIN FileSec
          THEN <<Call("error", mc_none, "invalid_section", 0, 0)>>
          ELSE IF shdr.id # into
          THEN <<Call("error", mc_none, "wrong_section", 0, 0)>>
          ELSE <<>>

\* relocate_one.
relocate_one ==
  /\ ro_pc = "call"
  /\ LET in == ro_in
         sym0 == IF in.symptr THEN "null" ELSE "unset"
         width_calls == IF in.rel.rel_width # in.width
                        THEN <<Call("error", mc_none, "width", 0, 0)>>
                        ELSE <<>>
     IN IF in.rel.invalid
        THEN ro_return(<<>>, ro_value, ro_sym, "returned")
        ELSE IF in.offset_into = "sec_invalid"
        THEN ro_return(<<Call("message", {mc_impact_3, mc_reloc},
                              "should_not_relocate", 0, 0)>>,
                       ro_value, sym0, "returned")
        ELSE IF in.rel.rel_width \notin {1, 2, 4, 8}
        THEN ro_return(<<>>, ro_value, sym0, "returned")
        ELSE IF ~in.symdata
        THEN ro_return(width_calls, ro_value, sym0, "returned")
        ELSE IF in.symbol.null
        THEN ro_return(width_calls \o <<Call("error", mc_none, "no_symbol", 0, 0)>>,
                       ro_value, sym0, "returned")
        ELSE LET sym1 == IF in.symptr THEN "symbol" ELSE "unset"
                 section_sym == in.et_rel /\ in.symbol.section
             IN IF section_sym /\ in.symbol.st_value # 0
                THEN ro_return(width_calls, ro_value, sym1, "aborted")
                ELSE \E shdr \in shdr_of(in.symbol.st_shndx) :
                       LET sym_value == IF section_sym THEN shdr.sh_addr
                                        ELSE in.symbol.st_value
                           calls == width_calls \o ro_target_calls(in, shdr)
                       IN ro_return(calls,
                                    IF in.et_rel
                                    THEN mask_to_rel_width(in.rel.addend + sym_value,
                                                           in.rel.rel_width)
                                    ELSE ro_value,
                                    sym1, "returned")

NextRelocOne == relocate_one

SpecRelocOne == InitRelocOne /\ [][NextRelocOne]_vars

\* The value the symbol stands for: the assigned address of its section for
\* a section symbol of an ET_REL file, st_value otherwise.
SymbolValue(in) ==
  IF in.et_rel /\ in.symbol.section
  THEN IF in.symbol.st_shndx \in DOMAIN FileSec
       THEN FileSec[in.symbol.st_shndx].sh_addr
       ELSE -1
  ELSE in.symbol.st_value

MayRelocate(in) ==
  /\ in.et_rel /\ ~in.rel.invalid /\ in.rel.rel_width \in {4, 8}
  /\ in.offset_into # "sec_invalid" /\ in.symdata /\ ~in.symbol.null

Relocated(in) ==
  LET m == IF in.rel.rel_width = 4 THEN WordModulus ELSE XwordModulus
  IN (in.rel.addend + SymbolValue(in)) % m

\* C21: relocate_one changes the value only for an ET_REL file, a valid
\* word or xword relocation, an expected target other than "invalid" and a
\* symbol obtained from the symbol table; the value it writes is addend +
\* symbol value modulo 2^(8 * relocation width), where a section symbol
\* stands for the assigned address of its section; otherwise the value is
\* left as it was.
C21_RelocatedValue ==
  ro_pc \in {"returned", "aborted"} =>
    \/ ro_value = ro_in.value
    \/ MayRelocate(ro_in) /\ SymbolValue(ro_in) >= 0
       /\ ro_value = Relocated(ro_in)

\* What holds of C21 for the symbols whose st_shndx is an index of the
\* section table, or that are no section symbols.
C21_RelocatedValueInTable ==
  (ro_pc \in {"returned", "aborted"} /\ SymbolValue(ro_in) >= 0) =>
    \/ ro_value = ro_in.value
    \/ MayRelocate(ro_in) /\ ro_value = Relocated(ro_in)

\* A word relocation against a section symbol wrapped at the word width.
C21_WordWrapped ==
  /\ ro_pc = "returned" /\ ro_in.rel.rel_width = 4 /\ ro_in.symbol.section
  /\ ro_in.rel.addend + SymbolValue(ro_in) >= WordModulus
  /\ ro_value # ro_in.value /\ ro_value = Relocated(ro_in)

(***************************************************************************)
(* read_rel: the loop over the entries of a relocation section and the     *)
(* final qsort.  Offsets are uint64_t and the result of compare is an int, *)
(* both kept at a reduced width.                                           *)
(***************************************************************************)
Uint64Modulus == 16
IntModulus == 8
RelWidth == 4
SecSize == 10

\* One entry of the relocation section: its r_offset and what the loop
\* makes of it (unreadable, a NONE type, an 8 or 16-bit type, a word).
RelaEntries ==
  [r_offset : {0, 1, 5, 6, 11}, kind : {"unreadable", "none", "byte", "word"}]

RelaInputs == UNION {[1..n -> RelaEntries] : n \in 0..MaxRel}

\* Conversion of a uint64_t to int: the low bits, as a signed number.
to_int(v) ==
  LET low == v % IntModulus
  IN IF low >= IntModulus \div 2 THEN low - IntModulus ELSE low

\* compare: return a->offset - b->offset, a uint64_t returned as int.
compare(a, b) == to_int((a.offset - b.offset + Uint64Modulus) % Uint64Modulus)

Rearrangements(n) ==
  {p \in [1..n -> 1..n] : \A i, j \in 1..n : p[i] = p[j] => i = j}

\* compare is a total preorder on the entries of the vector.
ConsistentOn(r) ==
  /\ \A i, j \in DOMAIN r :
       (compare(r[i], r[j]) <= 0) \/ (compare(r[j], r[i]) <= 0)
  /\ \A i, j, k \in DOMAIN r :
       (compare(r[i], r[j]) <= 0 /\ compare(r[j], r[k]) <= 0)
         => compare(r[i], r[k]) <= 0

\* qsort: a rearrangement of the vector that is in the order of compare;
\* any rearrangement when compare does not order the entries.
qsort(r) ==
  LET out == {[i \in DOMAIN r |-> r[p[i]]] : p \in Rearrangements(Len(r))}
  IN IF ConsistentOn(r)
     THEN {s \in out : \A i \in 1..(Len(s) - 1) : compare(s[i], s[i + 1]) <= 0}
     ELSE out

InitReadRel ==
  /\ IdleMain("read_rel")
  /\ IdleCri /\ IdleRel /\ IdleAbbrev /\ IdleDie
  /\ IdleInfo /\ IdleLocRange /\ IdleAranges /\ IdleLine /\ IdleRelocOne
  /\ IdleLocExpr /\ IdleDieCheck
  /\ rr_in \in RelaInputs
  /\ rr_i = 1
  /\ rr_rel = <<>>
  /\ rr_pc = "loop"
  /\ rr_log = {}

rr_frame == UNCHANGED <<flagVars, warning_criteria, error_criteria, mainVars,
                        criVars, relVars, abbrVars, dieVars, loaderVars, roVars,
                        leVars, dcVars, rr_in>>

\* One turn of the loop: the entry is appended, wiped, and filled in or
\* marked invalid.
rr_entry ==
  /\ rr_pc = "loop" /\ rr_i <= Len(rr_in)
  /\ LET e == rr_in[rr_i]
         falls_out == (e.r_offset + RelWidth) % Uint64Modulus >= SecSize
         cur == CASE e.kind \in {"unreadable", "none"} -> Relocation(0, TRUE)
                  [] e.kind = "byte" -> Relocation(e.r_offset, TRUE)
                  [] e.kind = "word" -> Relocation(e.r_offset, falls_out)
         calls == CASE e.kind = "unreadable" ->
                         <<Call("error", mc_none, "cannot_read", rr_i, 0)>>
                    [] e.kind = "none" ->
                         <<Call("message", {mc_impact_3, mc_reloc, mc_acc_bloat},
                                "none_reloc", rr_i, 0)>>
                    [] e.kind = "byte" ->
                         <<Call("error", mc_none, "narrow_type", rr_i, e.r_offset)>>
                    [] e.kind = "word" ->
                         IF falls_out
                         THEN <<Call("error", mc_none, "outside_section", rr_i,
                                     e.r_offset)>>
                         ELSE <<>>
     IN /\ rr_rel' = Append(rr_rel, cur)
        /\ wr_calls(calls)
        /\ rr_log' = rr_log \cup Logged(calls)
  /\ rr_i' = rr_i + 1
  /\ UNCHANGED rr_pc
  /\ rr_frame

\* After the loop: qsort (sec->rel.rel, sec->rel.size, ..., &compare).
rr_sort ==
  /\ rr_pc = "loop" /\ rr_i > Len(rr_in)
  /\ rr_rel' \in qsort(rr_rel)
  /\ rr_pc' = "returned"
  /\ UNCHANGED <<rr_i, rr_log, diagVars>>
  /\ rr_frame

NextReadRel == rr_entry \/ rr_sort

SpecReadRel == InitReadRel /\ [][NextReadRel]_vars

\* C22: after read_rel the relocation vector, valid and invalid entries
\* alike, is in non-decreasing order of offset, whatever the offsets.
C22_SortedByOffset ==
  rr_pc = "returned" =>
    \A i \in 1..(Len(rr_rel) - 1) : rr_rel[i].offset <= rr_rel[i + 1].offset

\* What holds: the vector is in order when all its offsets lie within half
\* the range of an int of each other.
C22_SortedWhenClose ==
  (/\ rr_pc = "returned"
   /\ \A i, j \in DOMAIN rr_rel :
        rr_rel[i].offset - rr_rel[j].offset < IntModulus \div 2) =>
    \A i \in 1..(Len(rr_rel) - 1) : rr_rel[i].offset <= rr_rel[i + 1].offset

\* Two valid entries left in descending order.
C22_ValidMisordered ==
  /\ rr_pc = "returned"
  /\ \E i \in 1..(Len(rr_rel) - 1) :
       /\ ~rr_rel[i].invalid /\ ~rr_rel[i + 1].invalid
       /\ rr_rel[i].offset > rr_rel[i + 1].offset

(***************************************************************************)
(* Claims about the "had children, but no DW_AT_sibling" message.          *)
(***************************************************************************)
\* The previous DIE of the chain of the entry just read had children and
\* no DW_AT_sibling attribute.
PrevHadChildrenNoSibling ==
  /\ die_pc = "entry" /\ die_report.prev # 0
  /\ die_in[die_report.prev].kind = "die"
  /\ die_in[die_report.prev].body = "ok"
  /\ die_in[die_report.prev].has_children
  /\ die_in[die_report.prev].sibling = NoSibling

\* C23: when the previous DIE of a sibling chain was decoded with an
\* abbreviation that has children and carried no DW_AT_sibling, the message
\* "This DIE had children, but no DW_AT_sibling attribute" is issued when
\* the next entry of the chain is read.
C23_NoSiblingReported ==
  PrevHadChildrenNoSibling => die_report.kind = "no_sibling"

\* What read_die_chain does: the message is issued for no entry.
C23_NeverReported == die_report.kind # "no_sibling"

\* A DIE with children and without DW_AT_sibling, followed in its chain by
\* a DIE, for which nothing is reported.
C23_SilentAfterChildren ==
  /\ PrevHadChildrenNoSibling /\ die_in[die_cur].kind = "die"
  /\ die_report.kind = "none"

(***************************************************************************)
(* check_location_expression: an expression of opcodes without operand     *)
(* (one byte), DW_OP_skip / DW_OP_bra with their 2-byte delta (three       *)
(* bytes) and undecodable opcodes; the last opcode may be cut short by the *)
(* end of the slice.  init_off is the offset of the slice in its section.  *)
(***************************************************************************)
MaxOps == 3        \* most opcodes of a location expression

Deltas == {-4, -3, -1, 0, 1, 3, 4}

LocOps ==
  [kind : {"plain", "undecodable"}, skip : {0}]
  \cup [kind : {"branch"}, skip : Deltas]

LocExprInputs ==
  [ops : UNION {[1..n -> LocOps] : n \in 0..MaxOps}, init_off : {0, 1},
   cut : BOOLEAN]

OpSize(op) == IF op.kind = "branch" THEN 3 ELSE 1

RECURSIVE OpStart(_, _)
OpStart(ops, k) == IF k = 1 THEN 0 ELSE OpStart(ops, k - 1) + OpSize(ops[k - 1])

\* The length of the slice: the opcodes, the last one without its operand
\* when the slice is cut.
SliceLength(in) ==
  LET n == Len(in.ops)
  IN IF n = 0 THEN 0
     ELSE OpStart(in.ops, n) + (IF in.cut THEN 1 ELSE OpSize(in.ops[n]))

\* ref_record_add (&oprefs, opcode_off + skip, &where).
branch_target(opcode_off, skip) ==
  (opcode_off + skip + Uint64Modulus) % Uint64Modulus

InitLocExpr ==
  /\ IdleMain("location_expression")
  /\ IdleCri /\ IdleRel /\ IdleAbbrev /\ IdleDie
  /\ IdleInfo /\ IdleLocRange /\ IdleAranges /\ IdleLine
  /\ IdleRelocOne /\ IdleReadRel /\ IdleDieCheck
  /\ le_in \in LocExprInputs
  /\ le_i = 1 /\ le_ptr = 0
  /\ le_oprefs = {} /\ le_opaddrs = {}
  /\ le_pc = "loop" /\ le_log = {}

le_frame == UNCHANGED <<flagVars, warning_criteria, error_criteria, mainVars,
                        criVars, relVars, abbrVars, dieVars, loaderVars, roVars,
                        rrVars, dcVars, le_in>>

le_step(calls, ptr, refs, to) ==
  /\ wr_calls(calls)
  /\ le_log' = le_log \cup Logged(calls)
  /\ le_ptr' = ptr
  /\ le_oprefs' = le_oprefs \cup refs
  /\ le_pc' = to
  /\ le_frame

\* One turn of the loop: the offset of the opcode is recorded, the opcode
\* and its operand are read, a branch is checked and recorded.
le_opcode ==
  /\ le_pc = "loop" /\ le_ptr < SliceLength(le_in)
  /\ LET op == le_in.ops[le_i]
         len == SliceLength(le_in)
         opcode_off == le_ptr + le_in.init_off
         cursor == le_ptr + OpSize(op)
     IN /\ le_opaddrs' = le_opaddrs \cup {opcode_off}
        /\ le_i' = le_i + 1
        /\ IF op.kind = "undecodable"
           THEN le_step(<<Call("error", mc_none, "cannot_decode", le_i, opcode_off)>>,
                        le_ptr + 1, {}, "out")
           ELSE IF op.kind = "plain"
           THEN le_step(<<>>, cursor, {}, "loop")
           ELSE IF cursor > len
           THEN le_step(<<Call("error", mc_none, "cannot_read_operand", le_i,
                               opcode_off)>>, le_ptr + 1, {}, "out")
           ELSE IF op.skip = 0
           THEN le_step(<<Call("message", {mc_loc, mc_acc_bloat, mc_impact_3},
                               "skip_0", le_i, opcode_off)>>, cursor, {}, "loop")
           ELSE IF op.skip > 0 /\ cursor + op.skip > len
           THEN le_step(<<Call("error", mc_none, "branches_out", le_i, opcode_off)>>,
                        cursor, {}, "loop")
           ELSE IF op.skip < 0 /\ -op.skip > cursor
           THEN le_step(<<Call("error", mc_none, "branches_before", le_i,
                               opcode_off)>>, cursor, {}, "loop")
           ELSE le_step(<<>>, cursor,
                        {[addr |-> branch_target(opcode_off, op.skip),
                          who |-> le_i]},
                        "loop")

\* read_ctx_eof: the loop ends.
le_eof ==
  /\ le_pc = "loop" /\ le_ptr >= SliceLength(le_in)
  /\ le_pc' = "out"
  /\ UNCHANGED <<le_i, le_ptr, le_oprefs, le_opaddrs, le_log, diagVars>>
  /\ le_frame

\* out: every recorded reference is looked up among the opcode offsets.
le_out ==
  /\ le_pc = "out"
  /\ LET bad == {r \in le_oprefs : r.addr \notin le_opaddrs}
         who == SetToSeq({r.who : r \in bad})
         ref(n) == CHOOSE r \in bad : r.who = who[n]
         calls == [n \in DOMAIN who |->
                     Call("error", mc_none, "unresolved_opcode", who[n],
                          ref(n).addr)]
     IN le_step(calls, le_ptr, {}, "returned")
  /\ UNCHANGED <<le_i, le_opaddrs>>

NextLocExpr == le_opcode \/ le_eof \/ le_out

SpecLocExpr == InitLocExpr /\ [][NextLocExpr]_vars

\* The branches read whole, with a delta other than 0.
BranchesRead ==
  {k \in 1..(le_i - 1) :
     /\ le_in.ops[k].kind = "branch" /\ le_in.ops[k].skip # 0
     /\ OpStart(le_in.ops, k) + 3 <= SliceLength(le_in)}

\* The target of branch k: the offset just after its operand plus its
\* delta, within the slice.
TargetOf(k) == OpStart(le_in.ops, k) + 3 + le_in.ops[k].skip
InsideSlice(t) == t >= 0 /\ t <= SliceLength(le_in)

UnresolvedLogged(k) ==
  \E e \in le_log : e.kind = "unresolved_opcode" /\ e.cu = k

\* C24: the target of a branch with a delta other than 0 is the offset just
\* after the operand plus the delta; that target is checked against the
\* slice and recorded, and "unresolved reference to opcode" is emitted iff
\* it is not the offset of an opcode of the expression.
C24_TargetAfterOperand ==
  le_pc = "returned" =>
    \A k \in BranchesRead :
      UnresolvedLogged(k) <=>
        (/\ InsideSlice(TargetOf(k))
         /\ TargetOf(k) + le_in.init_off \notin le_opaddrs)

\* What check_location_expression does: the slice is checked with the
\* offset after the operand, the reference recorded and resolved is the
\* offset of the branch opcode itself plus the delta.
C24_RecordedFromOpcode ==
  le_pc = "returned" =>
    \A k \in BranchesRead :
      UnresolvedLogged(k) <=>
        (/\ InsideSlice(TargetOf(k))
         /\ branch_target(OpStart(le_in.ops, k) + le_in.init_off,
                          le_in.ops[k].skip) \notin le_opaddrs)

\* A forward branch over one opcode to the start of the next is reported
\* as unresolved.
C24_GoodBranchReported ==
  /\ le_pc = "returned" /\ Len(le_in.ops) = 3 /\ ~le_in.cut
  /\ le_in.ops[1].kind = "branch" /\ le_in.ops[1].skip = 1
  /\ le_in.ops[2].kind = "plain" /\ le_in.ops[3].kind = "plain"
  /\ UnresolvedLogged(1)

(***************************************************************************)
(* The per-DIE check driver (dwarflint/check_die_tree.cc): the constructor *)
(* of check_die_tree walks all DIEs and hands each to                      *)
(* die_check_context::die, which invokes every live check; a check answers *)
(* by returning or by throwing.                                            *)
(***************************************************************************)
NDies == 2         \* DIEs of the file

\* The registered checks, in registration order.
Registered == <<1, 2, 3>>

Signals == {"ok", "unscheduled", "failed", "exception", "unknown"}

\* The checks the constructor of die_check_context creates: the registered
\* ones the rules let through, in registration order.
LiveAtStart ==
  {SetToSeq(S) : S \in SUBSET {Registered[i] : i \in DOMAIN Registered}}

Erase(s, pos) == [i \in 1..(Len(s) - 1) |-> IF i < pos THEN s[i] ELSE s[i + 1]]

\* Variant: the iterator moves on after the erased position.
after_erase_next(pos) == pos + 1

\* it = begin () + pos.
after_erase(pos) == pos

InitDieCheck ==
  /\ IdleMain("check_die_tree")
  /\ IdleCri /\ IdleRel /\ IdleAbbrev /\ IdleDie
  /\ IdleInfo /\ IdleLocRange /\ IdleAranges /\ IdleLine
  /\ IdleRelocOne /\ IdleReadRel /\ IdleLocExpr
  /\ dc_live \in LiveAtStart
  /\ dc_it = 0 /\ dc_die = 0 /\ dc_pc = "walk"
  /\ dc_start = <<>> /\ dc_invoked = <<>> /\ dc_dead = {}
  /\ dc_last = [check |-> 0, sig |-> "none"] /\ dc_log = {}

dc_frame == UNCHANGED <<flagVars, warning_criteria, error_criteria, mainVars,
                        criVars, relVars, abbrVars, dieVars, loaderVars, roVars,
                        rrVars, leVars>>

\* check_die_tree::check_die_tree: ctx.die (it) for the next DIE.
dc_next_die ==
  /\ dc_pc = "walk" /\ dc_die < NDies
  /\ dc_die' = dc_die + 1
  /\ dc_it' = 1
  /\ dc_start' = dc_live /\ dc_invoked' = <<>>
  /\ dc_pc' = "loop"
  /\ UNCHANGED <<dc_live, dc_dead, dc_last, dc_log, diagVars>>
  /\ dc_frame

\* error (a_d_it, reason): wr_error ... "A check failed".
dc_error(c) == <<Call("error", mc_none, "check_failed", dc_die, c)>>

\* die_check_context::die: (*it)->die (a_d_it) and the catch clauses.
dc_invoke(sig) ==
  /\ dc_pc = "loop" /\ dc_it <= Len(dc_live)
  /\ LET c == dc_live[dc_it]
         calls == IF sig \in {"exception", "unknown"} THEN dc_error(c) ELSE <<>>
     IN /\ dc_invoked' = Append(dc_invoked, c)
        /\ dc_last' = [check |-> c, sig |-> sig]
        /\ wr_calls(calls)
        /\ dc_log' = dc_log \cup Logged(calls)
        /\ IF sig = "unscheduled"
           THEN /\ dc_live' = Erase(dc_live, dc_it)
                /\ dc_dead' = dc_dead \cup {c}
                /\ dc_it' = after_erase(dc_it)
                /\ dc_pc' = IF dc_it' > Len(dc_live') THEN "walk" ELSE "loop"
           ELSE /\ dc_it' = dc_it + 1
                /\ dc_pc' = "loop"
                /\ UNCHANGED <<dc_live, dc_dead>>
  /\ UNCHANGED <<dc_die, dc_start>>
  /\ dc_frame

\* it != end () fails: die returns.
dc_end ==
  /\ dc_pc = "loop" /\ dc_it > Len(dc_live)
  /\ dc_pc' = "walk"
  /\ UNCHANGED <<dc_live, dc_it, dc_die, dc_start, dc_invoked, dc_dead, dc_last,
                 dc_log, diagVars>>
  /\ dc_frame

\* The walk is over: ~die_check_context.
dc_done ==
  /\ dc_pc = "walk" /\ dc_die = NDies
  /\ dc_pc' = "done" /\ dc_live' = <<>>
  /\ UNCHANGED <<dc_it, dc_die, dc_start, dc_invoked, dc_dead, dc_last, dc_log,
                 diagVars>>
  /\ dc_frame

NextDieCheck == dc_next_die \/ (\E sig \in Signals : dc_invoke(sig)) \/ dc_end
                \/ dc_done

SpecDieCheck == InitDieCheck /\ [][NextDieCheck]_vars

Elems(s) == {s[i] : i \in DOMAIN s}

\* After a DIE: the checks live when the DIE began were each invoked once,
\* in registration order; a removed check is not live.
DieChecked ==
  /\ (dc_pc = "walk" /\ dc_die > 0) => dc_invoked = dc_start
  /\ dc_pc \in {"walk", "loop"} => dc_dead \cap Elems(dc_live) = {}

\* One invocation: the check is live, and its signal is handled.
Invocation ==
  Len(dc_invoked') = Len(dc_invoked) + 1 =>
    LET c == dc_last'.check
        sig == dc_last'.sig
        one == [kind |-> "check_failed", cu |-> dc_die, addr |-> c,
                sev |-> "error"]
    IN /\ c \in Elems(dc_live) /\ c \notin dc_dead
       /\ sig = "unscheduled" =>
            /\ Elems(dc_live') = Elems(dc_live) \ {c} /\ c \in dc_dead'
            /\ error_count' = error_count /\ dc_log' = dc_log
       /\ sig \in {"ok", "failed"} =>
            /\ dc_live' = dc_live /\ dc_dead' = dc_dead
            /\ error_count' = error_count /\ dc_log' = dc_log
       /\ sig \in {"exception", "unknown"} =>
            /\ dc_live' = dc_live /\ dc_dead' = dc_dead
            /\ error_count' = error_count + 1
            /\ dc_log' = dc_log \cup {one}

\* C25: a check that signals 'unscheduled' leaves the live set and is not
\* invoked for any later DIE, every other live check is invoked exactly once
\* for the current DIE in registration order; 'failed' changes nothing and
\* emits nothing; any other failure emits one 'A check failed' error and
\* leaves the check live.
C25_Driver ==
  /\ []DieChecked
  /\ [][Invocation /\ dc_dead \subseteq dc_dead']_vars

\* The second of three checks was unscheduled at the first DIE; the second
\* DIE was checked by the first and the third.
C25_Witness ==
  /\ dc_pc = "walk" /\ dc_die = 2
  /\ dc_dead = {2} /\ dc_start = <<1, 3>> /\ dc_invoked = <<1, 3>>

\* C26: whenever where_from_reloc builds the location of a relocation
\* diagnostic, the cursor index it reads is below the number of entries and
\* is the position of the relocation being reported.
C26_ReadsReported ==
  \A rd \in rel_call.reads : rd.index < Len(rel) /\ rd.index = rd.reported

\* What the code does: the index has been advanced past the entry being
\* reported when where_from_reloc reads it, so it is the position after the
\* reported entry, at most the size.
C26_ReadsNext ==
  \A rd \in rel_call.reads : rd.index = rd.reported + 1 /\ rd.index <= Len(rel)

\* The last entry of the list is reported as mismatched: the array is read
\* at index = size.
C26_LastReadsPastEnd ==
  /\ rel_call.fn = "skip_rest" /\ Len(rel) > 0
  /\ [reported |-> Len(rel) - 1, index |-> Len(rel)] \in rel_call.reads

\* relocate_one reads the entry after the one it was given.
C26_RelocateOneReadsNext ==
  /\ rel_call.fn = "relocate_one" /\ rel_index < Len(rel)
  /\ rel[rel_index + 1].offset # rel_call.offset
  /\ rel_call.addr1 = rel[rel_index + 1].offset

\* The file at hand has a loaded .debug_abbrev and data in .debug_info.
InfoToCheck == file.abbrev_chain /\ NotFoundClass("info") \notin file.absent

\* C27: process_file never reads the record of an absent section; a file
\* with .debug_abbrev and .debug_info gets .debug_info checked, also when
\* it has no .debug_str section.
C27_InfoCheckedWithoutStr ==
  /\ pc # "crashed"
  /\ (FilePassed /\ InfoToCheck) => Ran("info")

\* What holds: .debug_info is checked in every pass that the read of
\* SEC(str)->data did not end.
C27_InfoCheckedUnlessTrapped ==
  (pc = "close" /\ InfoToCheck) => Ran("info")

\* The pass over a file without .debug_str ended at the read of
\* SEC(str)->data, before check_info_structural.
C27_TrappedBeforeInfo ==
  pc = "crashed" /\ InfoToCheck /\ ~Ran("info")

\* C28: the assertion of check_zero_padding (the cursor has an unread byte)
\* holds at every call, for every line table.
C28_AssertionHolds == ln_pc # "assert_failed"

\* What holds: the assertion fails only with the cursor at the end of the
\* table and a declared target past it, after the header fields or after
\* the sub-opcode of a DW_LNE_end_sequence.
C28_FailsOnlyAtEnd ==
  ln_pc = "assert_failed" =>
    \/ ln_ptr = 0 /\ ln_in = <<>> /\ ln_gap > 0
    \/ /\ ln_ptr + 3 = Len(ln_in)
       /\ ln_in[ln_ptr + 1] = 0 /\ ln_in[ln_ptr + 2] > 1
       /\ ln_in[ln_ptr + 3] = DW_LNE_end_sequence

\* The header declares a header_length past the fields that were parsed and
\* the table ends with them: the assertion fails.
C28_HeaderAtTableEnd ==
  ln_pc = "assert_failed" /\ ln_in = <<>> /\ ln_gap > 0

\* The last four bytes of .debug_info are a length of 0, after a CU that
\* was read: the assertion fails.
C28_ZeroLengthAtEnd ==
  info_pc = "assert_failed" /\ Len(cu_chain) = 2

\* The padding computation of the header was reached.
PaddingReached == ar_pc \in {"tuples", "after", "trapped", "assert_failed"}

\* C29: the padding computation and the tuple loop are reached only with an
\* address size of 4 or 8, also when the table refers to an existing CU, so
\* the tuple size is never 0 and nothing is divided by zero.
C29_AddressSizeValid ==
  /\ PaddingReached => ar_hdr.address_size \in {4, 8}
  /\ ar_pc \notin {"trapped", "assert_failed"}

\* What holds: a table whose CU offset found no CU reaches the padding
\* computation only with an address size of 4 or 8; the division by zero
\* happens only for a table that refers to an existing CU.
C29_ValidWithoutCu ==
  /\ (PaddingReached /\ ar_hdr.cu < 0) => ar_hdr.address_size \in {4, 8}
  /\ ar_pc \in {"trapped", "assert_failed"} =>
       ar_hdr.cu >= 0 /\ tuple_size(ar_hdr.address_size) = 0

\* A table with address size 0 that refers to a CU of address size 4: the
\* mismatch is reported and the padding computation divides by zero.
C29_DividedByZero ==
  /\ ar_pc = "trapped" /\ ar_hdr = [address_size |-> 0, cu |-> 4]
  /\ [kind |-> "address_size_mismatch", cu |-> 0, addr |-> 0, sev |-> "error"]
       \in ar_log

\* cu_find_cu: the first record of the chain with that offset, 0 for NULL.
cu_find_cu(chain, offset) ==
  IF \E i \in DOMAIN chain : chain[i].offset = offset
  THEN CHOOSE i \in DOMAIN chain :
         /\ chain[i].offset = offset
         /\ \A j \in 1..(i - 1) : chain[j].offset # offset
  ELSE 0

\* The offsets where zero padding was found in place of a CU.
PaddingOffsets == {CuOffset(e.cu) : e \in {l \in info_log : l.kind = "padding"}}

\* C30: every record of the returned CU chain is a CU whose header was
\* read (address_size 4 or 8); zero padding at the end of the section adds
\* no record, so cu_find_cu finds no CU at an offset in the padding.
C30_ChainOfReadCus ==
  info_pc = "returned" =>
    /\ \A i \in DOMAIN info_ret : info_ret[i].address_size \in {4, 8}
    /\ \A o \in PaddingOffsets : cu_find_cu(info_ret, o) = 0

\* What holds: the records of the returned chain are CUs whose header was
\* read, except the last one when the section ends in zero padding: that
\* one is the record allocated for the padding.
C30_BlankOnlyForPadding ==
  info_pc = "returned" =>
    \A i \in DOMAIN info_ret :
      \/ info_ret[i].address_size \in {4, 8}
      \/ /\ i = Len(info_ret) /\ info_ret[i] = BlankCu(i)
         /\ PaddingOffsets = {CuOffset(i)}

\* A section of one CU and zero padding: the returned chain has two
\* records and cu_find_cu finds the second at the offset of the padding.
C30_PaddingFound ==
  /\ info_pc = "returned" /\ Len(info_ret) = 2
  /\ info_ret[1].address_size = 4 /\ info_ret[2].address_size = 0
  /\ cu_find_cu(info_ret, CuOffset(2)) = 2

====
